---- MODULE Spec2Model ----
\* Frame / Host / Client frame-sharing protocol of the videostream crate and
\* the command loops of videostream-cli that drive it.
\*
\* The Rust wrappers (crates/videostream/src/frame.rs, host.rs, client.rs) are
\* translated from their source.  The native transport they call through the
\* vsl! macro is modelled from the behaviour the specification gives it; those
\* definitions carry the prefix Native.
EXTENDS Integers, Sequences, FiniteSets

\* ------------------------------------------------------------------ bounds
MaxFrames == 2      \* frames the producer can create
MaxTime == 2        \* the monotonic clock runs over 0..MaxTime
MaxClients == 1     \* client connections
MaxPosts == 3       \* posts a Host accepts before the model stops posting
MaxConns == 2       \* connections one client establishes
MaxConsumed == 3    \* max_frames of a consumer command
MaxIter == 3        \* iterations of a host command loop
MaxLife == 1        \* iterations a posted frame lives before its deadline
MaxHosts == 3       \* Host objects created at one socket path
MaxPathClients == 2 \* clients connecting to that path
MaxServe == 3       \* frames a serving loop posts
MaxServeClients == 2 \* clients of a serving loop's Host
MaxBufs == 2        \* buffers in the camera's capture queue
MaxCapIter == 4     \* iterations of the capture loop
MaxCapLife == 2     \* iterations a posted frame lives (90 ms at 30 fps)
MaxFd == 4          \* descriptors run over 3..MaxFd
MaxSlice == 5       \* byte slices given to FourCC::from have 0..MaxSlice bytes

Frames == 1..MaxFrames                      \* producer-side native frames
Times == 0..MaxTime
Clients == 1..MaxClients

\* the native frame object client c gets when it receives host frame h
ClientFrame(c, h) == c * MaxFrames + h

AllFrames == 1..(MaxFrames * (1 + MaxClients))

\* Host objects created at one socket path, and the clients that connect to it
Hosts == 1..MaxHosts
PathClients == 1..MaxPathClients

\* clients of the Host a serving loop runs
ServeClients == 1..MaxServeClients

\* the buffers of the camera's capture queue
Bufs == 1..MaxBufs

\* descriptors the native library can hand out, and the size of a frame
Fds == 3..MaxFd
FrameBytes == 12

VARIABLES
    now,        \* monotonic clock (videostream::timestamp)
    created,    \* native frame objects that exist or have existed
    mem,        \* frames that have backing memory (alloc / attach / received)
    held,       \* frame pointers held by a live Rust Frame value
    rel,        \* per frame: who called vsl_frame_release on it, in order
    posted,     \* frames handed to Host::post and not taken back by drop_frame
    expires,    \* per frame: the deadline the caller gave to Host::post
    deadline,   \* per frame: the deadline the native host stores for it
    serial,     \* per frame: serial number (0 until posted)
    hostState,  \* "none", "up" (bound, listening), "closed" (destroyed)
    tracked,    \* frames the Host tracks (published, unexpired)
    hostSerial, \* the Host's publish counter
    pending,    \* client connections waiting in the listen backlog
    accepted,   \* client sockets the Host has accepted
    lastProcess,\* TRUE in the state a Host::process call returns into
    cstate,     \* per client: "none", "blocked", "connected", "closed", "failed"
    creconn,    \* per client: the reconnect flag given to Client::new
    newRes,     \* per client: what Client::new returned, and whether a Host listened
    queue,      \* per client: frame descriptors broadcast and not yet read
    recv,       \* per client: serials of the frames received on this connection
    leaked,     \* frames Host::post forgot and vsl_host_post did not take
    conn,       \* per client: connections established so far
    getRes,     \* per client: how the last get_frame call went
    sockPath,   \* the socket path in the filesystem: "absent" or "bound"
    listenFd,   \* the Host's listening socket: "none", "open", "closed"
    \* consumer command loop (receive, record)
    cpath,      \* "idle", "receive" (decoding) or "record" (IPC source)
    cpc,        \* position in the loop body
    cframes,    \* frames the loop has finished with
    lockBy,     \* holder of the current frame's lock: "none", "self", "other"
    locks,      \* successful trylock calls of the loop on the current frame
    unlocks,    \* unlock calls of the loop on the current frame
    lastLock,   \* the last trylock: holder before, result, holder after
    gfCause,    \* why the last get_frame returned
    gfErr,      \* the io::ErrorKind get_frame reported ("none" on success)
    cres,       \* what the command returned ("run" while it runs)
    \* host command loop (stream, pipeline producer, documented usage)
    lpath,      \* "idle", "stream", "pipeline" or "doc"
    lpc,        \* position in the loop body
    liter,      \* completed iterations
    pollRet,    \* what Host::poll returned in this iteration
    lprocessed, \* process() calls made in this iteration
    ltracked,   \* ages of the frames the loop's Host tracks
    lpending,   \* connections waiting on the loop's Host
    \* several Host objects created at one socket path
    hsState,    \* per Host object: "none", "live" or "dropped"
    hsListen,   \* per Host object: its listening socket is open
    hsPath,     \* the Host whose socket the path names (0: no socket file)
    hsClient,   \* per client: the Host it is connected to (0: none)
    hsRes,      \* what the last Host::new or Client::new returned
    \* a Host serving several clients, one of which fails
    svPath,     \* "idle", "stream" (process) or "service" (one socket at a time)
    svPc,       \* position in the loop body
    svSock,     \* per client: "none", "pending", "connected", "broken", "closed"
    svGot,      \* per client: frame descriptors delivered to it
    svIter,     \* frames posted
    svPoll,     \* what Host::poll returned in this iteration
    svCause,    \* what the last native call met: "none", "client", "host"
    svRes,      \* what the command returned ("run" while it runs)
    svList,     \* what Host::sockets returned (<<-1>>: not called yet)
    \* stream: frames attached to camera buffers
    cpMode,     \* "idle", "raw" or "encode"
    cpPc,       \* position in the loop body
    cpBuf,      \* per camera buffer: "camera" (queued) or "app" (a CameraBuffer holds it)
    cpCur,      \* the buffer `buffer` holds in this iteration (0: none)
    cpLocal,    \* the buffer the Frame in `output_frame` is attached to (0: own memory, -1: no frame)
    cpHost,     \* the frames the Host tracks: buffer attached to and life left
    cpIter,     \* completed iterations
    cpRes,      \* what the command returned ("run" while it runs)
    \* one Frame and the calls made on it
    fPhase,     \* "idle", "none", "new", "allocated", "attached", "released", "panicked"
    fHandle,    \* the native frame's descriptor (-1: none)
    fSize,      \* the native frame's size field
    fSize0,     \* the size the native frame reports while it has no memory
    fOp,        \* the last operation called
    fRet,       \* what the native call of the last operation returned
    fOut,       \* what the last operation gave its caller: kind and value
    \* the command-line tool's metrics collector, exit code and fourcc helpers
    mPrev,      \* MetricsCollector::prev_serial: [some, v]
    mDropped,   \* MetricsCollector::dropped_frames
    mLast,      \* what the last track_serial call returned
    mCalls,     \* track_serial calls made
    xIn,        \* how the command ended: [variant, kind]
    xCode,      \* the process exit code (-1: still running)
    qVia,       \* the conversion pair last used: "none", "FourCC", "cli"
    qIn,        \* the fourcc bytes given
    qCode,      \* the 32-bit code they were converted to (-1: rejected)
    qOut,       \* the bytes the code was converted back to
    \* threads calling videostream_sys::init()
    iPc,        \* per thread: "idle", "fast", "lock", "check", "load", "set", "panic"
    iCalls,     \* per thread: init() calls started
    iLock,      \* INIT_LOCK: the thread holding it (0: free)
    iLibrary,   \* LIBRARY: the handle stored (0: unset)
    iLoads,     \* successful VideoStreamLibrary::new calls in the process
    iLocal,     \* per thread: the handle it loaded and has not stored yet
    iRet,       \* per thread: what its last init() returned (0: nothing, -1: Err)
    \* a command-line tool and the SIGINT flag
    gCmd,       \* "none", "stream", "receive", "record_ipc", "record_camera"
    gPc,        \* "idle", "start", "connect", "loop", "read", "wait", "body", "end"
    gTerm,      \* the flag install_signal_handler registered for SIGINT
    gHost,      \* a Host is listening on the socket the command connects to
    gCount,     \* frame_count
    gRes        \* what execute returned ("run" while it runs)

frameVars == <<created, mem, held, rel, posted, expires, deadline, serial>>
hostVars == <<hostState, tracked, hostSerial, pending, accepted>>
clientVars == <<cstate, creconn, newRes, queue, recv>>
reconnVars == <<conn, getRes>>
sockVars == <<sockPath, listenFd>>
protoVars == <<now, frameVars, hostVars, lastProcess, clientVars, leaked, reconnVars,
               sockVars>>
consVars == <<cpath, cpc, cframes, lockBy, locks, unlocks, lastLock, gfCause, gfErr, cres>>
loopVars == <<lpath, lpc, liter, pollRet, lprocessed, ltracked, lpending>>
hostsVars == <<hsState, hsListen, hsPath, hsClient, hsRes>>
serveVars == <<svPath, svPc, svSock, svGot, svIter, svPoll, svCause, svRes, svList>>
captureVars == <<cpMode, cpPc, cpBuf, cpCur, cpLocal, cpHost, cpIter, cpRes>>
frameApiVars == <<fPhase, fHandle, fSize, fSize0, fOp, fRet, fOut>>
cliVars == <<mPrev, mDropped, mLast, mCalls, xIn, xCode, qVia, qIn, qCode, qOut>>
initVars == <<iPc, iCalls, iLock, iLibrary, iLoads, iLocal, iRet>>
sigVars == <<gCmd, gPc, gTerm, gHost, gCount, gRes>>
exceptProto == <<consVars, loopVars, hostsVars, serveVars, captureVars, frameApiVars, cliVars, initVars, sigVars>>
exceptCons == <<protoVars, loopVars, hostsVars, serveVars, captureVars, frameApiVars, cliVars, initVars, sigVars>>
exceptLoop == <<protoVars, consVars, hostsVars, serveVars, captureVars, frameApiVars, cliVars, initVars, sigVars>>
exceptHosts == <<protoVars, consVars, loopVars, serveVars, captureVars, frameApiVars, cliVars, initVars, sigVars>>
exceptServe == <<protoVars, consVars, loopVars, hostsVars, captureVars, frameApiVars, cliVars, initVars, sigVars>>
exceptCapture == <<protoVars, consVars, loopVars, hostsVars, serveVars, frameApiVars, cliVars, initVars, sigVars>>
exceptFrameApi == <<protoVars, consVars, loopVars, hostsVars, serveVars, captureVars, cliVars, initVars, sigVars>>
exceptCli == <<protoVars, consVars, loopVars, hostsVars, serveVars, captureVars, frameApiVars, initVars, sigVars>>
exceptInit == <<protoVars, consVars, loopVars, hostsVars, serveVars, captureVars, frameApiVars, cliVars, sigVars>>
exceptSig == <<protoVars, consVars, loopVars, hostsVars, serveVars, captureVars, frameApiVars, cliVars, initVars>>
vars == <<protoVars, consVars, loopVars, hostsVars, serveVars, captureVars, frameApiVars, cliVars, initVars, sigVars>>

\* ------------------------------------------------------------ native frames
NoNew == [res |-> "none", host |-> FALSE]

Released(f) == Len(rel[f]) > 0

Live(f) == f \in created /\ ~Released(f)

FreeIds == Frames \ created

\* the id the next producer frame gets
NextId == CHOOSE f \in FreeIds : \A g \in FreeIds : f <= g

\* vsl_frame_release(ptr): one more release of that native object
NativeRelease(r, f, who) == [r EXCEPT ![f] = Append(@, who)]

\* vsl_frame_release on every frame of S
NativeReleaseAll(r, S, who) ==
    [f \in AllFrames |-> IF f \in S THEN Append(r[f], who) ELSE r[f]]

\* a per-frame native field once the frames of S are off the Host's table
NativeForget(field, S) == [f \in DOMAIN field |-> IF f \in S THEN 0 ELSE field[f]]

ProtoInit ==
    /\ now = 0
    /\ created = {}
    /\ mem = {}
    /\ held = {}
    /\ rel = [f \in AllFrames |-> << >>]
    /\ posted = {}
    /\ expires = [f \in Frames |-> 0]
    /\ deadline = [f \in Frames |-> 0]
    /\ serial = [f \in AllFrames |-> 0]
    /\ hostState = "none"
    /\ tracked = {}
    /\ hostSerial = 0
    /\ pending = {}
    /\ accepted = {}
    /\ lastProcess = FALSE
    /\ cstate = [c \in Clients |-> "none"]
    /\ creconn = [c \in Clients |-> "No"]
    /\ newRes = [c \in Clients |-> NoNew]
    /\ queue = [c \in Clients |-> << >>]
    /\ recv = [c \in Clients |-> << >>]
    /\ leaked = {}
    /\ conn = [c \in Clients |-> 0]
    /\ getRes = [c \in Clients |-> "none"]
    /\ sockPath = "absent"
    /\ listenFd = "none"

NoLock == [was |-> "none", res |-> "none", after |-> "none"]

\* no consumer command running
ConsIdle ==
    /\ cpath = "idle" /\ cpc = "idle" /\ cframes = 0
    /\ lockBy = "none" /\ locks = 0 /\ unlocks = 0 /\ lastLock = NoLock
    /\ gfCause = "none" /\ gfErr = "none" /\ cres = "run"

\* no host command running
LoopIdle ==
    /\ lpath = "idle" /\ lpc = "idle" /\ liter = 0 /\ pollRet = 0
    /\ lprocessed = 0 /\ ltracked = << >> /\ lpending = 0

\* no Host object created at the shared path
HostsIdle ==
    /\ hsState = [h \in Hosts |-> "none"]
    /\ hsListen = [h \in Hosts |-> FALSE]
    /\ hsPath = 0
    /\ hsClient = [c \in PathClients |-> 0]
    /\ hsRes = "none"

\* no serving loop running
ServeIdle ==
    /\ svPath = "idle" /\ svPc = "idle"
    /\ svSock = [c \in ServeClients |-> "none"]
    /\ svGot = [c \in ServeClients |-> 0]
    /\ svIter = 0 /\ svPoll = 0 /\ svCause = "none" /\ svRes = "run"
    /\ svList = <<-1>>

\* no capture loop running
CaptureIdle ==
    /\ cpMode = "idle" /\ cpPc = "idle"
    /\ cpBuf = [b \in Bufs |-> "camera"]
    /\ cpCur = 0 /\ cpLocal = -1 /\ cpHost = << >> /\ cpIter = 0 /\ cpRes = "run"

NoOut == [kind |-> "none", val |-> 0]

\* no Frame constructed
FrameApiIdle ==
    /\ fPhase = "idle" /\ fHandle = -1 /\ fSize = 0 /\ fSize0 = 0
    /\ fOp = "none" /\ fRet = 0 /\ fOut = NoOut

NoSerial == [some |-> FALSE, v |-> 0]

\* no command-line tool running
CliIdle ==
    /\ mPrev = NoSerial /\ mDropped = 0 /\ mLast = 0 /\ mCalls = 0
    /\ xIn = [variant |-> "none", kind |-> "none"] /\ xCode = -1
    /\ qVia = "none" /\ qIn = << >> /\ qCode = -1 /\ qOut = << >>

MaxThreads == 2     \* threads calling init()
MaxInitCalls == 2   \* init() calls per thread

Threads == 1..MaxThreads

\* process start: LIBRARY unset, INIT_LOCK free
SysIdle ==
    /\ iPc = [t \in Threads |-> "idle"] /\ iCalls = [t \in Threads |-> 0]
    /\ iLock = 0 /\ iLibrary = 0 /\ iLoads = 0
    /\ iLocal = [t \in Threads |-> 0] /\ iRet = [t \in Threads |-> 0]

\* no command started
SigIdle ==
    /\ gCmd = "none" /\ gPc = "idle" /\ gTerm = FALSE /\ gHost = FALSE
    /\ gCount = 0 /\ gRes = "run"

Init == ProtoInit /\ ConsIdle /\ LoopIdle /\ HostsIdle /\ ServeIdle /\ CaptureIdle /\ FrameApiIdle /\ CliIdle /\ SysIdle /\ SigIdle

\* the clock advances
Tick ==
    /\ now < MaxTime
    /\ now' = now + 1
    /\ lastProcess' = FALSE
    /\ UNCHANGED <<leaked, reconnVars, sockVars, exceptProto>>
    /\ UNCHANGED <<frameVars, hostVars, clientVars>>

\* ------------------------------------------------------------------- Frame
\* Frame::new with a 4-byte fourcc: a native frame without backing memory
FrameNew ==
    /\ FreeIds # {}
    /\ created' = created \cup {NextId}
    /\ held' = held \cup {NextId}
    /\ lastProcess' = FALSE
    /\ UNCHANGED <<leaked, reconnVars, sockVars, exceptProto>>
    /\ UNCHANGED <<now, mem, rel, posted, expires, deadline, serial,
                   hostVars, clientVars>>

\* Frame::alloc (or Frame::attach) succeeding on a frame without memory
FrameAlloc(f) ==
    /\ f \in held /\ Live(f) /\ f \notin mem
    /\ mem' = mem \cup {f}
    /\ lastProcess' = FALSE
    /\ UNCHANGED <<leaked, reconnVars, sockVars, exceptProto>>
    /\ UNCHANGED <<now, created, held, rel, posted, expires, deadline, serial,
                   hostVars, clientVars>>

\* impl Drop for Frame: the pointer is non-null, so vsl_frame_release is called
\* on it, whatever state the native object is in
FrameDrop(f) ==
    /\ f \in held
    /\ held' = held \ {f}
    /\ rel' = NativeRelease(rel, f, "rust")
    /\ serial' = NativeForget(serial, {f})
    /\ lastProcess' = FALSE
    /\ UNCHANGED <<leaked, reconnVars, sockVars, exceptProto>>
    /\ UNCHANGED <<now, created, mem, posted, expires, deadline, hostVars, clientVars>>

\* -------------------------------------------------------------------- Host
\* vsl_host_init: binds and listens; a Host object starts with nothing
\* published and its serial counter at zero.  Clients blocked in their
\* connection retry get through to the listen backlog.
HostNew ==
    /\ hostState = "none"
    /\ hostState' = "up"
    /\ sockPath' = "bound"
    /\ listenFd' = "open"
    /\ hostSerial' = 0
    /\ tracked' = {}
    /\ accepted' = {}
    /\ pending' = {c \in Clients : cstate[c] = "blocked"}
    /\ cstate' = [c \in Clients |-> IF cstate[c] = "blocked" THEN "connected" ELSE cstate[c]]
    /\ newRes' = [c \in Clients |->
                    IF cstate[c] = "blocked" THEN [newRes[c] EXCEPT !.res = "ok"] ELSE newRes[c]]
    /\ lastProcess' = FALSE
    /\ conn' = [c \in Clients |-> IF cstate[c] = "blocked" THEN conn[c] + 1 ELSE conn[c]]
    /\ UNCHANGED <<leaked, getRes, exceptProto>>
    /\ UNCHANGED <<now, frameVars, creconn, queue, recv>>

\* Host::post with the duration handed over where the deadline belongs
PostDeadlineArgDuration(e, d) == d

\* the arguments Host::post hands to vsl_host_post: (expires, duration, ...)
PostDeadlineArg(e, d) == e

\* Host::post without the mem::forget: the Frame value is dropped when post
\* returns and releases the frame it has just published
PostOwnerReleaseDrop(r, f) == NativeRelease(r, f, "rust")

\* std::mem::forget(frame) in Host::post: the Frame value's Drop never runs,
\* so the posting side adds no release
PostOwnerRelease(r, f) == r

\* vsl_host_post succeeding: the frame is tracked with its deadline, gets the
\* next serial and its descriptor is broadcast to every accepted client
NativeBroadcast(q, f, s) ==
    [c \in Clients |-> IF c \in accepted /\ cstate[c] = "connected"
                       THEN Append(q[c], [frame |-> f, serial |-> s]) ELSE q[c]]

\* Host::post(frame, expires, -1, -1, -1); ok is whether vsl_host_post succeeds
HostPost(f, e, ok) ==
    /\ hostState = "up"
    /\ f \in held /\ Live(f) /\ f \in Frames
    /\ hostSerial < MaxPosts
    /\ ok => f \in mem
    /\ held' = held \ {f}
    /\ posted' = posted \cup {f}
    /\ rel' = PostOwnerRelease(rel, f)
    /\ IF ok
       THEN /\ tracked' = tracked \cup {f}
            /\ expires' = [expires EXCEPT ![f] = e]
            /\ deadline' = [deadline EXCEPT ![f] = PostDeadlineArg(e, -1)]
            /\ hostSerial' = hostSerial + 1
            /\ serial' = [serial EXCEPT ![f] = hostSerial + 1]
            /\ queue' = NativeBroadcast(queue, f, hostSerial + 1)
       ELSE UNCHANGED <<tracked, expires, deadline, hostSerial, serial, queue>>
    /\ leaked' = IF ok THEN leaked ELSE leaked \cup {f}
    /\ lastProcess' = FALSE
    /\ UNCHANGED <<reconnVars, sockVars, exceptProto>>
    /\ UNCHANGED <<now, created, mem, hostState, pending, accepted,
                   cstate, creconn, newRes, recv>>

\* the frames vsl_host_process expires at time t: deadline reached
NativeExpired(t) == {f \in tracked : deadline[f] <= t}

\* the one socket vsl_host_process services: a pending connection is accepted,
\* otherwise an accepted socket whose client has gone is dropped
NativeServiceChoices ==
    IF pending # {} THEN {[op |-> "accept", c |-> c] : c \in pending}
    ELSE IF \E c \in accepted : cstate[c] # "connected"
         THEN {[op |-> "close", c |-> c] : c \in {x \in accepted : cstate[x] # "connected"}}
         ELSE {[op |-> "idle", c |-> 0]}

\* Host::process that does its work only when a socket has something to
\* service, and returns at once otherwise
HostProcessOnActivity ==
    /\ hostState = "up"
    /\ LET idle == \A s \in NativeServiceChoices : s.op = "idle"
           gone == IF idle THEN {} ELSE NativeExpired(now)
       IN /\ tracked' = tracked \ gone
          /\ rel' = NativeReleaseAll(rel, gone, "host")
          /\ expires' = NativeForget(expires, gone)
          /\ deadline' = NativeForget(deadline, gone)
          /\ serial' = NativeForget(serial, gone)
    /\ \E s \in NativeServiceChoices :
         /\ pending' = IF s.op = "accept" THEN pending \ {s.c} ELSE pending
         /\ accepted' = CASE s.op = "accept" -> accepted \cup {s.c}
                          [] s.op = "close" -> accepted \ {s.c}
                          [] OTHER -> accepted
    /\ lastProcess' = TRUE
    /\ UNCHANGED <<leaked, reconnVars, sockVars, exceptProto>>
    /\ UNCHANGED <<now, created, mem, held, posted, hostState, hostSerial, clientVars>>

\* Host::process: vsl_host_process expires, then services one socket
HostProcess ==
    /\ hostState = "up"
    /\ tracked' = tracked \ NativeExpired(now)
    /\ rel' = NativeReleaseAll(rel, NativeExpired(now), "host")
    /\ expires' = NativeForget(expires, NativeExpired(now))
    /\ deadline' = NativeForget(deadline, NativeExpired(now))
    /\ serial' = NativeForget(serial, NativeExpired(now))
    /\ \E s \in NativeServiceChoices :
         /\ pending' = IF s.op = "accept" THEN pending \ {s.c} ELSE pending
         /\ accepted' = CASE s.op = "accept" -> accepted \cup {s.c}
                          [] s.op = "close" -> accepted \ {s.c}
                          [] OTHER -> accepted
    /\ lastProcess' = TRUE
    /\ UNCHANGED <<leaked, reconnVars, sockVars, exceptProto>>
    /\ UNCHANGED <<now, created, mem, held, posted, hostState, hostSerial, clientVars>>

\* Host::drop_frame returning Ok without the Host letting go of the frame
HostDropFrameKeep(f) ==
    /\ hostState = "up"
    /\ f \in tracked
    /\ posted' = posted \ {f}
    /\ held' = held \cup {f}
    /\ lastProcess' = FALSE
    /\ UNCHANGED <<now, created, mem, rel, serial, expires, deadline, hostVars, clientVars,
                   leaked, reconnVars, sockVars, exceptProto>>

\* Host::drop_frame on a frame the Host tracks (the caller kept the pointer and
\* re-wrapped it): the Host forgets the frame, the caller's Frame owns it again
HostDropFrame(f) ==
    /\ hostState = "up"
    /\ f \in tracked
    /\ tracked' = tracked \ {f}
    /\ posted' = posted \ {f}
    /\ held' = held \cup {f}
    /\ expires' = NativeForget(expires, {f})
    /\ deadline' = NativeForget(deadline, {f})
    /\ lastProcess' = FALSE
    /\ UNCHANGED <<leaked, reconnVars, sockVars, exceptProto>>
    /\ UNCHANGED <<now, created, mem, rel, serial,
                   hostState, hostSerial, pending, accepted, clientVars>>

\* impl Drop for Host taking the branch that skips vsl_host_release: the
\* Host value is gone and the native host is left as it was
HostDropNoRelease ==
    /\ hostState = "up"
    /\ hostState' = "closed"
    /\ lastProcess' = FALSE
    /\ UNCHANGED <<now, frameVars, tracked, hostSerial, pending, accepted, clientVars,
                   leaked, reconnVars, sockVars, exceptProto>>

\* impl Drop for Host: vsl_host_release closes the socket, unlinks the path
\* and releases every frame still tracked; connected clients see the close
HostDrop ==
    /\ hostState = "up"
    /\ hostState' = "closed"
    /\ sockPath' = "absent"
    /\ listenFd' = "closed"
    /\ rel' = NativeReleaseAll(rel, tracked, "host")
    /\ expires' = NativeForget(expires, tracked)
    /\ deadline' = NativeForget(deadline, tracked)
    /\ serial' = NativeForget(serial, tracked)
    /\ tracked' = {}
    /\ pending' = {}
    /\ accepted' = {}
    /\ cstate' = [c \in Clients |-> IF cstate[c] = "connected" THEN "closed" ELSE cstate[c]]
    /\ queue' = [c \in Clients |-> << >>]
    /\ lastProcess' = FALSE
    /\ UNCHANGED <<leaked, reconnVars, exceptProto>>
    /\ UNCHANGED <<now, created, mem, held, posted, hostSerial, creconn, newRes, recv>>

\* ------------------------------------------------------------------ Client
\* the reconnect flag lost on the way to the native client
ReconnectToBoolNever(r) == FALSE

\* the conversion with the two variants swapped
ReconnectToBoolSwapped(r) == r = "No"

\* impl From<Reconnect> for bool
ReconnectToBool(r) == r = "Yes"

\* Client::new's result from the pointer vsl_client_init returned
ClientNewResult(isNull) == IF isNull THEN "io" ELSE "ok"

\* vsl_client_init(path, NULL, reconnect) with a Host listening connects; with
\* none it returns NULL at once unless reconnect is set, and then keeps retrying
NativeClientInit(reconnect) ==
    IF hostState = "up" THEN "connected"
    ELSE IF reconnect THEN "blocked" ELSE "null"

\* Client::new(path, r)
ClientNew(c, r) ==
    /\ cstate[c] = "none"
    /\ creconn' = [creconn EXCEPT ![c] = r]
    /\ LET out == NativeClientInit(ReconnectToBool(r))
       IN /\ cstate' = [cstate EXCEPT ![c] =
                          CASE out = "connected" -> "connected"
                            [] out = "blocked" -> "blocked"
                            [] OTHER -> "failed"]
          /\ newRes' = [newRes EXCEPT ![c] =
                          [res |-> IF out = "blocked" THEN "none"
                                   ELSE ClientNewResult(out = "null"),
                           host |-> hostState = "up"]]
          /\ pending' = IF out = "connected" THEN pending \cup {c} ELSE pending
          /\ conn' = IF out = "connected" THEN [conn EXCEPT ![c] = @ + 1] ELSE conn
    /\ lastProcess' = FALSE
    /\ UNCHANGED <<leaked, getRes, sockVars, exceptProto>>
    /\ UNCHANGED <<now, frameVars, hostState, tracked, hostSerial, accepted, queue, recv>>

\* Client::disconnect: vsl_client_disconnect closes the socket
ClientDisconnect(c) ==
    /\ cstate[c] = "connected"
    /\ cstate' = [cstate EXCEPT ![c] = "closed"]
    /\ pending' = pending \ {c}
    /\ queue' = [queue EXCEPT ![c] = << >>]
    /\ lastProcess' = FALSE
    /\ UNCHANGED <<leaked, reconnVars, sockVars, exceptProto>>
    /\ UNCHANGED <<now, frameVars, hostState, tracked, hostSerial, accepted,
                   creconn, newRes, recv>>

\* the descriptors of q whose frame the Host still tracks under that serial,
\* in order
RECURSIVE NativeValid(_)
NativeValid(q) ==
    IF q = << >> THEN << >>
    ELSE IF Head(q).frame \in tracked /\ serial[Head(q).frame] = Head(q).serial
         THEN <<Head(q)>> \o NativeValid(Tail(q))
         ELSE NativeValid(Tail(q))

\* Frame::serial reading the presentation timestamp, which every poster of
\* the repository passes as -1
FrameSerialPts(h) == -1

\* Frame::serial: vsl_frame_serial of the frame; h is the posted frame whose
\* descriptor the received frame was built from
FrameSerial(h) == serial[h]

\* Client::get_frame returning a frame: vsl_frame_wait hands out a new native
\* frame for the first descriptor that is still valid, Frame::wrap wraps it.
\* With viaWait the call is Frame::wait: the Frame get_frame returned is
\* dropped when wait returns, and a second Frame holds the same pointer.
ClientGetFrame(c, viaWait) ==
    /\ cstate[c] = "connected"
    /\ NativeValid(queue[c]) # << >>
    /\ LET h == Head(NativeValid(queue[c])).frame
           g == ClientFrame(c, h)
       IN /\ g \notin created
          /\ created' = created \cup {g}
          /\ mem' = mem \cup {g}
          /\ held' = held \cup {g}
          /\ queue' = [queue EXCEPT ![c] = Tail(NativeValid(queue[c]))]
          /\ recv' = [recv EXCEPT ![c] = Append(@, FrameSerial(h))]
          /\ rel' = IF viaWait THEN NativeRelease(rel, g, "rust") ELSE rel
          /\ serial' = IF viaWait THEN serial ELSE [serial EXCEPT ![g] = serial[h]]
    /\ lastProcess' = FALSE
    /\ getRes' = [getRes EXCEPT ![c] = "frame"]
    /\ UNCHANGED <<leaked, conn, sockVars, exceptProto>>
    /\ UNCHANGED <<now, posted, expires, deadline, hostVars, cstate, creconn, newRes>>

\* vsl_frame_wait on a client whose connection is closed: with the reconnect
\* flag it tries to connect again, without it it fails at once
NativeFrameWaitClosed(reconnect) ==
    IF ~reconnect THEN "disconnected"
    ELSE IF hostState = "up" THEN "reconnected" ELSE "refused"

\* Client::get_frame on a client whose connection is closed (after
\* disconnect, or after the Host went away).  A re-established connection is
\* a new one: it waits in the backlog and has received nothing yet.
ClientGetFrameClosed(c) ==
    /\ cstate[c] = "closed"
    /\ LET out == NativeFrameWaitClosed(ReconnectToBool(creconn[c]))
       IN /\ out = "reconnected" => conn[c] < MaxConns
          /\ getRes' = [getRes EXCEPT ![c] = out]
          /\ IF out = "reconnected"
             THEN /\ cstate' = [cstate EXCEPT ![c] = "connected"]
                  /\ conn' = [conn EXCEPT ![c] = @ + 1]
                  /\ pending' = pending \cup {c}
                  /\ accepted' = accepted \ {c}
                  /\ recv' = [recv EXCEPT ![c] = << >>]
                  /\ queue' = [queue EXCEPT ![c] = << >>]
             ELSE UNCHANGED <<cstate, conn, pending, accepted, recv, queue>>
    /\ lastProcess' = FALSE
    /\ UNCHANGED <<leaked, sockVars, exceptProto>>
    /\ UNCHANGED <<now, frameVars, hostState, tracked, hostSerial, creconn, newRes>>

Next ==
    \/ Tick
    \/ FrameNew
    \/ \E f \in Frames : FrameAlloc(f)
    \/ \E f \in AllFrames : FrameDrop(f)
    \/ HostNew
    \/ \E f \in Frames, e \in Times, ok \in BOOLEAN : HostPost(f, e, ok)
    \/ HostProcess
    \/ \E f \in Frames : HostDropFrame(f)
    \/ HostDrop
    \/ \E c \in Clients, r \in {"No", "Yes"} : ClientNew(c, r)
    \/ \E c \in Clients : ClientDisconnect(c)
    \/ \E c \in Clients, viaWait \in BOOLEAN : ClientGetFrame(c, viaWait)
    \/ \E c \in Clients : ClientGetFrameClosed(c)

Spec == Init /\ [][Next]_vars
\* ---------------------------------------------------- consumer command loop
\* why vsl_frame_wait returns: a frame, or NULL for one of these causes
GetFrameCauses == {"frame", "timeout", "disconnect", "refused", "null"}

\* the io::ErrorKind io::Error::last_os_error() yields after vsl_frame_wait
\* returned NULL for that cause
NativeFrameWaitKinds(cause) ==
    CASE cause = "timeout" -> {"TimedOut"}
      [] cause = "disconnect" -> {"ConnectionReset", "BrokenPipe"}
      [] cause = "refused" -> {"ConnectionRefused", "NotFound"}
      [] cause = "null" -> {"InvalidData", "Other"}
      [] OTHER -> {"none"}

\* Client::get_frame: a null pointer becomes Error::Io(last_os_error())
GetFrameResult(isNull, kind) ==
    IF isNull THEN [variant |-> "Io", kind |-> kind]
    ELSE [variant |-> "Ok", kind |-> "none"]

\* From<videostream::Error> for CliError with Timeout also for a broken pipe
CliFromPipeTimeout(err) ==
    IF err.variant = "Io"
    THEN CASE err.kind = "NotFound" -> "CameraNotFound"
           [] err.kind \in {"TimedOut", "BrokenPipe"} -> "Timeout"
           [] err.kind \in {"ConnectionRefused", "ConnectionReset",
                            "ConnectionAborted"} -> "SocketError"
           [] err.kind = "PermissionDenied" -> "CameraNotFound"
           [] OTHER -> "General"
    ELSE IF err.variant \in {"SymbolNotFound", "HardwareNotAvailable"}
         THEN "EncoderUnavailable"
         ELSE "General"

\* impl From<videostream::Error> for CliError
CliFrom(err) ==
    IF err.variant = "Io"
    THEN CASE err.kind = "NotFound" -> "CameraNotFound"
           [] err.kind = "TimedOut" -> "Timeout"
           [] err.kind \in {"ConnectionRefused", "ConnectionReset",
                            "ConnectionAborted", "BrokenPipe"} -> "SocketError"
           [] err.kind = "PermissionDenied" -> "CameraNotFound"
           [] OTHER -> "General"
    ELSE IF err.variant \in {"SymbolNotFound", "HardwareNotAvailable"}
         THEN "EncoderUnavailable"
         ELSE "General"

\* receive: the match on client.get_frame(0)'s error
ReceiveGetFrameErr(err) ==
    IF err.variant = "Io" /\ err.kind = "TimedOut" THEN "Timeout" ELSE CliFrom(err)

\* record: client.get_frame(0)?
RecordGetFrameErr(err) == CliFrom(err)

\* vsl_frame_trylock: 0 when the lock was free, -1 at once when it is held
NativeTrylock(holder) == IF holder = "none" THEN 0 ELSE -1

\* the holder after vsl_frame_trylock by who
NativeTrylockHolder(holder, who) == IF holder = "none" THEN who ELSE holder

\* vsl_frame_unlock by who: 0 and the lock is free when who held it, else -1
NativeUnlock(holder, who) == IF holder = who THEN 0 ELSE -1

\* Frame::trylock treating only positive returns as failure
TrylockResultPositive(ret) == IF ret > 0 THEN "err" ELSE "ok"

\* Frame::trylock: any non-zero return is an error
TrylockResult(ret) == IF ret # 0 THEN "err" ELSE "ok"

\* Frame::unlock: -1 is an error
UnlockResult(ret) == IF ret = -1 THEN "err" ELSE "ok"

\* a consumer command starts: receive with a decoder, or record from IPC
InitConsumer ==
    /\ ProtoInit /\ LoopIdle /\ HostsIdle /\ ServeIdle /\ CaptureIdle /\ FrameApiIdle /\ CliIdle /\ SysIdle /\ SigIdle
    /\ cpath \in {"receive", "record"}
    /\ cpc = "get" /\ cframes = 0
    /\ lockBy = "none" /\ locks = 0 /\ unlocks = 0 /\ lastLock = NoLock
    /\ gfCause = "none" /\ gfErr = "none" /\ cres = "run"

\* let frame = client.get_frame(0) and the handling of its error
ConsGetFrame(cause, kind) ==
    /\ cpc = "get" /\ cframes < MaxConsumed
    /\ kind \in NativeFrameWaitKinds(cause)
    /\ LET r == GetFrameResult(cause # "frame", kind)
       IN /\ gfCause' = cause
          /\ gfErr' = r.kind
          /\ IF r.variant = "Ok"
             THEN /\ cpc' = "trylock"
                  /\ cres' = cres
             ELSE /\ cpc' = "exit"
                  /\ cres' = IF cpath = "receive" THEN ReceiveGetFrameErr(r)
                             ELSE RecordGetFrameErr(r)
    /\ lockBy' = "none" /\ locks' = 0 /\ unlocks' = 0
    /\ UNCHANGED <<cpath, cframes, lastLock, exceptCons>>

\* the loop condition fails: frame_count reached max_frames
ConsFinish ==
    /\ cpc = "get" /\ cframes = MaxConsumed
    /\ cpc' = "exit" /\ cres' = "ok"
    /\ UNCHANGED <<cpath, cframes, lockBy, locks, unlocks, lastLock, gfCause, gfErr,
                   exceptCons>>

\* frame.trylock()?
ConsTrylock ==
    /\ cpc = "trylock"
    /\ LET res == TrylockResult(NativeTrylock(lockBy))
       IN /\ lockBy' = NativeTrylockHolder(lockBy, "self")
          /\ lastLock' = [was |-> lockBy, res |-> res,
                          after |-> NativeTrylockHolder(lockBy, "self")]
          /\ IF res = "ok"
             THEN /\ locks' = locks + 1
                  /\ cpc' = IF cpath = "receive" THEN "mmap" ELSE "work"
                  /\ cres' = cres
             ELSE /\ locks' = locks
                  /\ cpc' = "dropped"
                  /\ cres' = CliFrom([variant |-> "Io", kind |-> "WouldBlock"])
    /\ UNCHANGED <<cpath, cframes, unlocks, gfCause, gfErr, exceptCons>>

\* let data = frame.mmap()?  (receive only)
ConsMmap(ok) ==
    /\ cpc = "mmap"
    /\ cpc' = IF ok THEN "work" ELSE "dropped"
    /\ cres' = IF ok THEN cres ELSE CliFrom([variant |-> "Io", kind |-> "Other"])
    /\ UNCHANGED <<cpath, cframes, lockBy, locks, unlocks, lastLock, gfCause, gfErr,
                   exceptCons>>

\* decoder.decode_frame(data)?  /  encoder.frame(...)?
ConsWork(ok) ==
    /\ cpc = "work"
    /\ cpc' = IF ok THEN "unlock" ELSE "dropped"
    /\ cres' = IF ok THEN cres ELSE CliFrom([variant |-> "Io", kind |-> "Other"])
    /\ UNCHANGED <<cpath, cframes, lockBy, locks, unlocks, lastLock, gfCause, gfErr,
                   exceptCons>>

\* frame.unlock()?
ConsUnlock ==
    /\ cpc = "unlock"
    /\ unlocks' = unlocks + 1
    /\ LET ret == NativeUnlock(lockBy, "self")
       IN /\ lockBy' = IF ret = 0 THEN "none" ELSE lockBy
          /\ cres' = IF UnlockResult(ret) = "ok" THEN cres
                     ELSE CliFrom([variant |-> "Io", kind |-> "Other"])
    /\ cpc' = "dropped"
    /\ UNCHANGED <<cpath, cframes, locks, lastLock, gfCause, gfErr, exceptCons>>

\* the frame has gone out of scope; the loop goes round, or execute returned
ConsNext ==
    /\ cpc = "dropped"
    /\ cpc' = IF cres = "run" THEN "get" ELSE "exit"
    /\ cframes' = IF cres = "run" THEN cframes + 1 ELSE cframes
    /\ UNCHANGED <<cpath, lockBy, locks, unlocks, lastLock, gfCause, gfErr, cres,
                   exceptCons>>

\* another holder of the same frame (the producer, another reader) calls
\* Frame::trylock while the loop has the frame
OtherTrylock ==
    /\ cpc \in {"trylock", "mmap", "work", "unlock"}
    /\ lockBy' = NativeTrylockHolder(lockBy, "other")
    /\ lastLock' = [was |-> lockBy, res |-> TrylockResult(NativeTrylock(lockBy)),
                    after |-> NativeTrylockHolder(lockBy, "other")]
    /\ UNCHANGED <<cpath, cpc, cframes, locks, unlocks, gfCause, gfErr, cres,
                   exceptCons>>

\* the other holder calls Frame::unlock on the lock it holds
OtherUnlock ==
    /\ cpc \in {"trylock", "mmap", "work", "unlock"}
    /\ lockBy = "other"
    /\ NativeUnlock(lockBy, "other") = 0
    /\ lockBy' = "none"
    /\ UNCHANGED <<cpath, cpc, cframes, locks, unlocks, lastLock, gfCause, gfErr, cres,
                   exceptCons>>

NextConsumer ==
    \/ \E cause \in GetFrameCauses :
         \E kind \in NativeFrameWaitKinds(cause) : ConsGetFrame(cause, kind)
    \/ ConsFinish
    \/ ConsTrylock
    \/ \E ok \in BOOLEAN : ConsMmap(ok)
    \/ \E ok \in BOOLEAN : ConsWork(ok)
    \/ ConsUnlock
    \/ ConsNext
    \/ OtherTrylock
    \/ OtherUnlock

SpecConsumer == InitConsumer /\ [][NextConsumer]_vars

\* -------------------------------------------------------- host command loop
\* vsl_host_poll: the number of sockets with activity, 0 when the wait runs out
NativePoll(waiting) == IF waiting > 0 THEN 1 ELSE 0

\* whether the loop body calls host.process() after poll returned n:
\* stream and the example on Host::process test poll's result, the pipeline
\* producer calls process() unconditionally
LoopCallsProcess(path, n) ==
    CASE path = "stream" -> n > 0
      [] path = "doc" -> n > 0
      [] OTHER -> TRUE

\* the remaining lives of the tracked frames after one more iteration
RECURSIVE LoopAge(_)
LoopAge(q) ==
    IF q = << >> THEN << >>
    ELSE <<IF Head(q) > 0 THEN Head(q) - 1 ELSE 0>> \o LoopAge(Tail(q))

\* the tracked frames vsl_host_process keeps: those with life left
RECURSIVE NativeLoopExpire(_)
NativeLoopExpire(q) ==
    IF q = << >> THEN << >>
    ELSE IF Head(q) > 0 THEN <<Head(q)>> \o NativeLoopExpire(Tail(q))
         ELSE NativeLoopExpire(Tail(q))

\* a host command starts with a fresh Host
InitHostLoop ==
    /\ ProtoInit /\ ConsIdle /\ HostsIdle /\ ServeIdle /\ CaptureIdle /\ FrameApiIdle /\ CliIdle /\ SysIdle /\ SigIdle
    /\ lpath \in {"stream", "pipeline", "doc"}
    /\ lpc = IF lpath = "doc" THEN "poll" ELSE "post"
    /\ liter = 0 /\ pollRet = 0 /\ lprocessed = 0
    /\ ltracked = << >> /\ lpending = 0

\* host.post(output_frame, expires, -1, -1, -1)?
LoopPost ==
    /\ lpc = "post"
    /\ ltracked' = Append(ltracked, MaxLife)
    /\ lpc' = "poll"
    /\ UNCHANGED <<lpath, liter, pollRet, lprocessed, lpending, exceptLoop>>

\* host.poll(wait)
LoopPoll ==
    /\ lpc = "poll"
    /\ pollRet' = NativePoll(lpending)
    /\ lpc' = "decide"
    /\ UNCHANGED <<lpath, liter, lprocessed, ltracked, lpending, exceptLoop>>

\* host.process()?, reached or not according to the loop
LoopProcess ==
    /\ lpc = "decide"
    /\ LoopCallsProcess(lpath, pollRet)
    /\ ltracked' = NativeLoopExpire(ltracked)
    /\ lpending' = IF lpending > 0 THEN lpending - 1 ELSE 0
    /\ lprocessed' = lprocessed + 1
    /\ lpc' = "end"
    /\ UNCHANGED <<lpath, liter, pollRet, exceptLoop>>

\* the branch that leaves process() out
LoopSkip ==
    /\ lpc = "decide"
    /\ ~LoopCallsProcess(lpath, pollRet)
    /\ lpc' = "end"
    /\ UNCHANGED <<lpath, liter, pollRet, lprocessed, ltracked, lpending,
                   exceptLoop>>

\* the end of the loop body: the next iteration starts one frame period later
LoopIterEnd ==
    /\ lpc = "end" /\ liter < MaxIter
    /\ liter' = liter + 1
    /\ ltracked' = LoopAge(ltracked)
    /\ lprocessed' = 0
    /\ pollRet' = 0
    /\ lpc' = IF lpath = "doc" THEN "poll" ELSE "post"
    /\ UNCHANGED <<lpath, lpending, exceptLoop>>

\* a client connects to the loop's Host
LoopConnect ==
    /\ lpath # "idle" /\ lpending = 0
    /\ lpending' = 1
    /\ UNCHANGED <<lpath, lpc, liter, pollRet, lprocessed, ltracked, exceptLoop>>

NextHostLoop ==
    \/ LoopPost
    \/ LoopPoll
    \/ LoopProcess
    \/ LoopSkip
    \/ LoopIterEnd
    \/ LoopConnect

SpecHostLoop == InitHostLoop /\ [][NextHostLoop]_vars

\* ------------------------------------------------- several Hosts at one path
\* CString::new(path bytes)?: a path with an interior NUL byte is refused
HostNewPath(pathOk) == IF pathOk THEN "ok" ELSE "nul"

\* vsl_host_init(path): an existing socket file at the path is unlinked and
\* replaced, whoever made it; NULL only when socket/bind/listen fails
NativeHostInit(nativeOk) == IF nativeOk THEN "ptr" ELSE "null"

\* Host::new maps the native result: null pointer -> Err(Io), else Ok(Host)
HostNewResult(p) == IF p = "null" THEN "io" ELSE "ok"

\* Host::new(path) for the Host object h
HostsNew(h, pathOk, nativeOk) ==
    /\ hsState[h] = "none"
    /\ IF HostNewPath(pathOk) = "nul"
       THEN /\ hsRes' = "nul"
            /\ UNCHANGED <<hsState, hsListen, hsPath>>
       ELSE LET p == NativeHostInit(nativeOk)
            IN /\ hsRes' = HostNewResult(p)
               /\ IF p = "ptr"
                  THEN /\ hsState' = [hsState EXCEPT ![h] = "live"]
                       /\ hsListen' = [hsListen EXCEPT ![h] = TRUE]
                       /\ hsPath' = h
                  ELSE UNCHANGED <<hsState, hsListen, hsPath>>
    /\ UNCHANGED <<hsClient, exceptHosts>>

\* vsl_host_release(ptr): closes the listening and client sockets of this Host
\* and unlinks the path it was created with
NativeHostRelease(h) ==
    /\ hsListen' = [hsListen EXCEPT ![h] = FALSE]
    /\ hsPath' = 0
    /\ hsClient' = [c \in PathClients |-> IF hsClient[c] = h THEN 0 ELSE hsClient[c]]

\* impl Drop for Host
HostsDrop(h) ==
    /\ hsState[h] = "live"
    /\ hsState' = [hsState EXCEPT ![h] = "dropped"]
    /\ NativeHostRelease(h)
    /\ hsRes' = "dropped"
    /\ UNCHANGED exceptHosts

\* Client::new(path, reconnect): connects to the socket the path names now
HostsClientNew(c) ==
    /\ hsClient[c] = 0
    /\ IF hsPath # 0 /\ hsListen[hsPath]
       THEN hsClient' = [hsClient EXCEPT ![c] = hsPath] /\ hsRes' = "connected"
       ELSE UNCHANGED hsClient /\ hsRes' = "refused"
    /\ UNCHANGED <<hsState, hsListen, hsPath, exceptHosts>>

\* impl Drop for Client
HostsClientDrop(c) ==
    /\ hsClient[c] # 0
    /\ hsClient' = [hsClient EXCEPT ![c] = 0]
    /\ hsRes' = "closed"
    /\ UNCHANGED <<hsState, hsListen, hsPath, exceptHosts>>

InitHosts == Init

NextHosts ==
    \/ \E h \in Hosts, pathOk \in BOOLEAN, nativeOk \in BOOLEAN : HostsNew(h, pathOk, nativeOk)
    \/ \E h \in Hosts : HostsDrop(h)
    \/ \E c \in PathClients : HostsClientNew(c)
    \/ \E c \in PathClients : HostsClientDrop(c)

SpecHosts == InitHosts /\ [][NextHosts]_vars

\* ------------------------------------------- one client's socket fails
\* the lowest-numbered client whose socket is in state st
FirstIn(st) ==
    CHOOSE c \in ServeClients :
        svSock[c] = st /\ \A d \in ServeClients : svSock[d] = st => c <= d

\* a wrapper of a native call returning int: negative is Err(Io), else Ok
HostResultZero(ret) == IF ret <= 0 THEN "err" ELSE "ok"

HostResult(ret) == IF ret < 0 THEN "err" ELSE "ok"

\* vsl_host_post: -1 only for a failure of the Host itself; a client whose
\* socket is broken is dropped and the broadcast goes on to the others
NativeHostPostRet(hostOk) == IF hostOk THEN 0 ELSE -1

NativeBroadcastSock(c) == IF svSock[c] = "broken" THEN "closed" ELSE svSock[c]

NativeBroadcastGot(c) == IF svSock[c] = "connected" THEN svGot[c] + 1 ELSE svGot[c]

\* vsl_host_poll: the sockets that are ready, the listening socket when a
\* connection waits and every client socket whose peer has gone
NativeServePoll ==
    (IF \E c \in ServeClients : svSock[c] = "pending" THEN 1 ELSE 0)
    + Cardinality({c \in ServeClients : svSock[c] = "broken"})

\* vsl_host_process services the first ready socket: it accepts the waiting
\* connection, or closes the client socket whose peer has gone
NativeServeOne ==
    IF \E c \in ServeClients : svSock[c] = "pending"
    THEN [svSock EXCEPT ![FirstIn("pending")] = "connected"]
    ELSE IF \E c \in ServeClients : svSock[c] = "broken"
         THEN [svSock EXCEPT ![FirstIn("broken")] = "closed"]
         ELSE svSock

\* vsl_host_process: -1 only for a failure of the Host itself
NativeHostProcessRet(hostOk) == IF hostOk THEN 0 ELSE -1

\* vsl_host_service(sock): 0, or -1 (EPIPE) when the peer of sock has gone
NativeHostServiceRet(c) == IF svSock[c] = "broken" THEN -1 ELSE 0

\* a publishing command starts with its Host listening
InitServe ==
    /\ ProtoInit /\ ConsIdle /\ LoopIdle /\ HostsIdle /\ CaptureIdle /\ FrameApiIdle /\ CliIdle /\ SysIdle /\ SigIdle
    /\ svPath \in {"stream", "service"}
    /\ svPc = "post"
    /\ svSock = [c \in ServeClients |-> "none"]
    /\ svGot = [c \in ServeClients |-> 0]
    /\ svIter = 0 /\ svPoll = 0 /\ svCause = "none" /\ svRes = "run"
    /\ svList = <<-1>>

\* a client process connects to the Host's path
ServeConnect(c) ==
    /\ svRes = "run"
    /\ svSock[c] = "none"
    /\ svSock' = [svSock EXCEPT ![c] = "pending"]
    /\ UNCHANGED <<svPath, svPc, svGot, svIter, svPoll, svCause, svRes, svList, exceptServe>>

\* a connected client process dies: its end of the socket is gone
ServeBreak(c) ==
    /\ svRes = "run"
    /\ svSock[c] = "connected"
    /\ svSock' = [svSock EXCEPT ![c] = "broken"]
    /\ UNCHANGED <<svPath, svPc, svGot, svIter, svPoll, svCause, svRes, svList, exceptServe>>

\* host.post(frame, expires, -1, -1, -1)?
ServePost(hostOk) ==
    /\ svPc = "post" /\ svRes = "run" /\ svIter < MaxServe
    /\ LET ret == NativeHostPostRet(hostOk)
       IN IF HostResult(ret) = "err"
          THEN /\ svRes' = "err" /\ svPc' = "done"
               /\ svCause' = IF hostOk THEN "none" ELSE "host"
               /\ UNCHANGED <<svSock, svGot, svIter>>
          ELSE /\ svSock' = [c \in ServeClients |-> NativeBroadcastSock(c)]
               /\ svGot' = [c \in ServeClients |-> NativeBroadcastGot(c)]
               /\ svCause' = IF \E c \in ServeClients : svSock[c] = "broken"
                             THEN "client" ELSE "none"
               /\ svIter' = svIter + 1
               /\ svPc' = "poll"
               /\ UNCHANGED svRes
    /\ UNCHANGED <<svPath, svPoll, svList, exceptServe>>

\* host.poll(1)? and the test of its result
ServePoll ==
    /\ svPc = "poll" /\ svRes = "run"
    /\ svPoll' = NativeServePoll
    /\ svPc' = IF NativeServePoll > 0 THEN "process" ELSE "end"
    /\ UNCHANGED <<svPath, svSock, svGot, svIter, svCause, svRes, svList, exceptServe>>

\* host.process()?; a caller that services client sockets itself calls it
\* for the listening socket, which service() does not accept from
ServeProcess(hostOk) ==
    /\ svPc = "process" /\ svRes = "run"
    /\ svPath = "service" => \E c \in ServeClients : svSock[c] = "pending"
    /\ LET ret == NativeHostProcessRet(hostOk)
       IN IF HostResult(ret) = "err"
          THEN /\ svRes' = "err" /\ svPc' = "done"
               /\ svCause' = IF hostOk THEN "none" ELSE "host"
               /\ UNCHANGED svSock
          ELSE /\ svSock' = NativeServeOne
               /\ svCause' = IF /\ \A c \in ServeClients : svSock[c] # "pending"
                                /\ \E c \in ServeClients : svSock[c] = "broken"
                             THEN "client" ELSE "none"
               /\ svPc' = "end"
               /\ UNCHANGED svRes
    /\ UNCHANGED <<svPath, svGot, svIter, svPoll, svList, exceptServe>>

\* host.service(sock) for one client socket, its error kept for that client
ServeService(c) ==
    /\ svPc = "process" /\ svRes = "run" /\ svPath = "service"
    /\ svSock[c] \in {"connected", "broken"}
    /\ svCause' = IF HostResult(NativeHostServiceRet(c)) = "err" THEN "client" ELSE "none"
    /\ svSock' = [svSock EXCEPT ![c] = IF @ = "broken" THEN "closed" ELSE @]
    /\ svPc' = "end"
    /\ UNCHANGED <<svPath, svGot, svIter, svPoll, svRes, svList, exceptServe>>

\* the end of the loop body; the loop ends after MaxServe frames
ServeIterEnd ==
    /\ svPc = "end" /\ svRes = "run"
    /\ svPc' = IF svIter < MaxServe THEN "post" ELSE "done"
    /\ svRes' = IF svIter < MaxServe THEN "run" ELSE "ok"
    /\ UNCHANGED <<svPath, svSock, svGot, svIter, svPoll, svCause, svList, exceptServe>>

\* vsl_host_sockets(host, n, buf, &max): max is the listening socket plus the
\* client sockets the Host holds; with room for them buf gets the listening
\* socket (0) followed by the client sockets, else the call fails (ENOBUFS)
NativeHostSockets(n) ==
    LET kept == SelectSeq([c \in ServeClients |-> c],
                          LAMBDA c : svSock[c] \in {"connected", "broken"})
        all == <<0>> \o kept
    IN [max |-> Len(all),
        ret |-> IF n < Len(all) THEN -1 ELSE 0,
        buf |-> IF n < Len(all) THEN [i \in 1..n |-> -1]
                ELSE [i \in 1..n |-> IF i <= Len(all) THEN all[i] ELSE -1]]

\* sockets() giving the empty list for a Host without clients
HostSocketsResultNoClients(max) ==
    IF max <= 1 THEN [res |-> "ok", list |-> << >>]
    ELSE LET second == NativeHostSockets(max)
         IN IF second.ret < 0 THEN [res |-> "io", list |-> << >>]
            ELSE [res |-> "ok", list |-> second.buf]

\* Host::sockets after the first native call reported max: an empty Vec for
\* max = 0, else a buffer of max entries filled by the second call
HostSocketsResult(max) ==
    IF max = 0 THEN [res |-> "ok", list |-> << >>]
    ELSE LET second == NativeHostSockets(max)
         IN IF second.ret < 0 THEN [res |-> "io", list |-> << >>]
            ELSE [res |-> "ok", list |-> second.buf]

\* host.sockets(), one snapshot taken at any point of the run
ServeSockets ==
    /\ svRes = "run" /\ svList = <<-1>>
    /\ svList' = HostSocketsResult(NativeHostSockets(0).max).list
    /\ UNCHANGED <<svPath, svPc, svSock, svGot, svIter, svPoll, svCause, svRes, exceptServe>>

NextServe ==
    \/ ServeSockets
    \/ \E c \in ServeClients : ServeConnect(c)
    \/ \E c \in ServeClients : ServeBreak(c)
    \/ \E hostOk \in BOOLEAN : ServePost(hostOk)
    \/ ServePoll
    \/ \E hostOk \in BOOLEAN : ServeProcess(hostOk)
    \/ \E c \in ServeClients : ServeService(c)
    \/ ServeIterEnd

SpecServe == InitServe /\ [][NextServe]_vars

\* --------------------------------------- frames attached to camera buffers
\* vsl_camera_get_data dequeues a buffer the camera has filled
NativeCameraGet(b) == [cpBuf EXCEPT ![b] = "app"]

\* impl Drop for CameraBuffer: vsl_camera_release_buffer queues the buffer to
\* the camera again, which then writes the next capture into it
CameraBufferDrop(b) == [cpBuf EXCEPT ![b] = "camera"]

\* TryFrom<&CameraBuffer> for Frame: Frame::new, then attach(buf.fd(), 0, 0);
\* the Frame borrows nothing from the buffer and the descriptor is not duplicated
FrameTryFromBuffer(b, ok) == IF ok THEN b ELSE -1

\* the frame the loop posts: in raw mode the frame attached to the camera
\* buffer itself, with an encoder a frame with memory of its own
OutputFrame(mode, b) == IF mode = "raw" THEN b ELSE 0

\* the remaining lives of the posted frames after one more iteration
RECURSIVE CaptureAge(_)
CaptureAge(q) ==
    IF q = << >> THEN << >>
    ELSE <<[buf |-> Head(q).buf, life |-> IF Head(q).life > 0 THEN Head(q).life - 1 ELSE 0]>>
         \o CaptureAge(Tail(q))

\* the frames vsl_host_process keeps: those with life left
RECURSIVE NativeCaptureExpire(_)
NativeCaptureExpire(q) ==
    IF q = << >> THEN << >>
    ELSE (IF Head(q).life > 0 THEN <<Head(q)>> ELSE << >>) \o NativeCaptureExpire(Tail(q))

\* videostream stream starts, raw or with an encoder
InitCapture ==
    /\ ProtoInit /\ ConsIdle /\ LoopIdle /\ HostsIdle /\ ServeIdle /\ FrameApiIdle /\ CliIdle /\ SysIdle /\ SigIdle
    /\ cpMode \in {"raw", "encode"}
    /\ cpPc = "read"
    /\ cpBuf = [b \in Bufs |-> "camera"]
    /\ cpCur = 0 /\ cpLocal = -1 /\ cpHost = << >> /\ cpIter = 0 /\ cpRes = "run"

\* let buffer = cam.read()?
CaptureRead(b, ok) ==
    /\ cpPc = "read" /\ cpRes = "run" /\ cpIter < MaxCapIter
    /\ cpBuf[b] = "camera"
    /\ IF ok
       THEN /\ cpBuf' = NativeCameraGet(b)
            /\ cpCur' = b
            /\ cpPc' = "convert"
            /\ UNCHANGED cpRes
       ELSE /\ cpRes' = "err" /\ cpPc' = "done"
            /\ UNCHANGED <<cpBuf, cpCur>>
    /\ UNCHANGED <<cpMode, cpLocal, cpHost, cpIter, exceptCapture>>

\* (&buffer).try_into()?, and with an encoder encoder.frame(&input_frame, ...)?
\* after which input_frame is dropped; an error drops `buffer` on the way out
CaptureConvert(ok, encOk) ==
    /\ cpPc = "convert" /\ cpRes = "run"
    /\ LET in == FrameTryFromBuffer(cpCur, ok)
       IN IF in = -1 \/ (cpMode = "encode" /\ ~encOk)
          THEN /\ cpRes' = "err" /\ cpPc' = "done"
               /\ cpBuf' = CameraBufferDrop(cpCur)
               /\ cpCur' = 0
               /\ UNCHANGED cpLocal
          ELSE /\ cpLocal' = OutputFrame(cpMode, in)
               /\ cpPc' = "post"
               /\ UNCHANGED <<cpBuf, cpCur, cpRes>>
    /\ UNCHANGED <<cpMode, cpHost, cpIter, exceptCapture>>

\* host.post(output_frame, now + 90 ms, -1, -1, -1)?
CapturePost ==
    /\ cpPc = "post" /\ cpRes = "run"
    /\ cpHost' = Append(cpHost, [buf |-> cpLocal, life |-> MaxCapLife])
    /\ cpLocal' = -1
    /\ cpPc' = "poll"
    /\ UNCHANGED <<cpMode, cpBuf, cpCur, cpIter, cpRes, exceptCapture>>

\* if host.poll(1)? > 0 { host.process()? }
CapturePoll(activity) ==
    /\ cpPc = "poll" /\ cpRes = "run"
    /\ cpHost' = IF activity THEN NativeCaptureExpire(cpHost) ELSE cpHost
    /\ cpPc' = "end"
    /\ UNCHANGED <<cpMode, cpBuf, cpCur, cpLocal, cpIter, cpRes, exceptCapture>>

\* the end of the loop body: `buffer` goes out of scope; a frame period passes
CaptureIterEnd ==
    /\ cpPc = "end" /\ cpRes = "run"
    /\ cpBuf' = CameraBufferDrop(cpCur)
    /\ cpCur' = 0
    /\ cpHost' = CaptureAge(cpHost)
    /\ cpIter' = cpIter + 1
    /\ cpPc' = IF cpIter + 1 < MaxCapIter THEN "read" ELSE "done"
    /\ cpRes' = IF cpIter + 1 < MaxCapIter THEN "run" ELSE "ok"
    /\ UNCHANGED <<cpMode, cpLocal, exceptCapture>>

NextCapture ==
    \/ \E b \in Bufs, ok \in BOOLEAN : CaptureRead(b, ok)
    \/ \E ok \in BOOLEAN, encOk \in BOOLEAN : CaptureConvert(ok, encOk)
    \/ CapturePost
    \/ \E activity \in BOOLEAN : CapturePoll(activity)
    \/ CaptureIterEnd

SpecCapture == InitCapture /\ [][NextCapture]_vars

\* ------------------------------------------------- the calls on one Frame
Out(k, v) == [kind |-> k, val |-> v]

HasMemory == fPhase \in {"allocated", "attached"}

FrameLive == fPhase \in {"new", "allocated", "attached", "released"}

\* Frame::alloc, the path argument: None is a null pointer; Some(path) goes
\* through path.to_str().unwrap() and CString::new(path).unwrap()
AllocPath(pathKind) ==
    CASE pathKind = "none" -> "null"
      [] pathKind = "utf8" -> "ptr"
      [] pathKind = "nonutf8" -> "panic"
      [] pathKind = "nul" -> "panic"

\* Frame::alloc: any non-zero return is an error
AllocResult(ret) == IF ret # 0 THEN "io" ELSE "ok"

\* Frame::attach: a negative return is an error
AttachResult(ret) == IF ret < 0 THEN "io" ELSE "ok"

\* Frame::sync: `if ret >= 0 { return Err(last_os_error) } Ok(())`
SyncResult(ret) == IF ret >= 0 THEN "io" ELSE "ok"

\* mmap with both conditions required for the error
MmapResultBoth(isNull, size) == IF isNull /\ size = 0 THEN "null" ELSE "slice"

\* Frame::mmap / mmap_mut: `if ptr.is_null() || size == 0 { Err(NullPointer) }`
MmapResult(isNull, size) == IF isNull \/ size = 0 THEN "null" ELSE "slice"

\* From<&[u8]> for FourCC indexes buf[0..3]
FourCCFromSlice(len) == IF len < 4 THEN "panic" ELSE "ok"

\* buf.width().try_into().unwrap(): i32 to u32
DimToU32(w) == IF w < 0 THEN "panic" ELSE "ok"

\* vsl_frame_alloc, vsl_frame_attach, vsl_frame_sync: 0 or -1
NativeFrameRet(ok) == IF ok THEN 0 ELSE -1

\* vsl_frame_mmap: NULL when the frame has no memory or the mapping fails
NativeMmapNull(mapOk) == ~HasMemory \/ ~mapOk

\* Frame::new: a fourcc string that is not 4 bytes long is refused before any
\* native call with Error::NullPointer; a null pointer from vsl_frame_init
\* is Error::Io
FrameNewResult(len, isNull) ==
    IF len # 4 THEN "null" ELSE IF isNull THEN "io" ELSE "ok"

\* before Frame::new is called
InitFrameApi ==
    /\ ProtoInit /\ ConsIdle /\ LoopIdle /\ HostsIdle /\ ServeIdle /\ CaptureIdle /\ CliIdle /\ SysIdle /\ SigIdle
    /\ fPhase = "none" /\ fHandle = -1
    /\ fSize0 \in {0, FrameBytes} /\ fSize = fSize0
    /\ fOp = "none" /\ fRet = 0 /\ fOut = NoOut

\* Frame::new(width, height, stride, fourcc_str) with a string of len bytes
FrameApiNew(len, ok) ==
    /\ fPhase = "none"
    /\ fOp' = "new"
    /\ fRet' = len
    /\ fOut' = Out(FrameNewResult(len, ~ok), 0)
    /\ fPhase' = IF FrameNewResult(len, ~ok) = "ok" THEN "new" ELSE "none"
    /\ UNCHANGED <<fHandle, fSize, fSize0, exceptFrameApi>>

\* frame.alloc(path), called while the frame has no memory
FrameApiAlloc(pathKind, ok, fd) ==
    /\ FrameLive /\ ~HasMemory
    /\ fOp' = "alloc"
    /\ IF AllocPath(pathKind) = "panic"
       THEN /\ fOut' = Out("panic", 0) /\ fPhase' = "panicked"
            /\ UNCHANGED <<fHandle, fSize, fRet>>
       ELSE /\ fRet' = NativeFrameRet(ok)
            /\ fOut' = Out(AllocResult(NativeFrameRet(ok)), 0)
            /\ IF ok
               THEN fPhase' = "allocated" /\ fHandle' = fd /\ fSize' = FrameBytes
               ELSE UNCHANGED <<fPhase, fHandle, fSize>>
    /\ UNCHANGED <<fSize0, exceptFrameApi>>

\* frame.attach(fd, size, offset), called while the frame has no memory
FrameApiAttach(ok, fd) ==
    /\ FrameLive /\ ~HasMemory
    /\ fOp' = "attach"
    /\ fRet' = NativeFrameRet(ok)
    /\ fOut' = Out(AttachResult(NativeFrameRet(ok)), 0)
    /\ IF ok
       THEN fPhase' = "attached" /\ fHandle' = fd /\ fSize' = FrameBytes
       ELSE UNCHANGED <<fPhase, fHandle, fSize>>
    /\ UNCHANGED <<fSize0, exceptFrameApi>>

\* Frame::try_from(&buffer): Frame::new with the buffer's dimensions, attach
FrameApiTryFrom(w, ok, fd) ==
    /\ fPhase = "none"
    /\ fOp' = "try_from"
    /\ IF DimToU32(w) = "panic"
       THEN /\ fOut' = Out("panic", 0) /\ fPhase' = "panicked"
            /\ UNCHANGED <<fHandle, fSize, fRet>>
       ELSE /\ fRet' = NativeFrameRet(ok)
            /\ fOut' = Out(AttachResult(NativeFrameRet(ok)), 0)
            /\ IF ok
               THEN fPhase' = "attached" /\ fHandle' = fd /\ fSize' = FrameBytes
               ELSE UNCHANGED <<fPhase, fHandle, fSize>>
    /\ UNCHANGED <<fSize0, exceptFrameApi>>

\* unalloc that leaves the native call out
FrameApiUnallocNoCall ==
    /\ FrameLive
    /\ fOp' = "unalloc"
    /\ fRet' = 0
    /\ fOut' = Out("ok", 0)
    /\ fPhase' = IF HasMemory THEN "released" ELSE fPhase
    /\ UNCHANGED <<fHandle, fSize>>
    /\ UNCHANGED <<fSize0, exceptFrameApi>>

\* frame.unalloc(): vsl_frame_unalloc frees the memory, the frame stays
FrameApiUnalloc ==
    /\ FrameLive
    /\ fOp' = "unalloc"
    /\ fRet' = 0
    /\ fOut' = Out("ok", 0)
    /\ fPhase' = IF HasMemory THEN "released" ELSE fPhase
    /\ fHandle' = -1
    /\ fSize' = fSize0
    /\ UNCHANGED <<fSize0, exceptFrameApi>>

\* frame.handle()
FrameApiHandle ==
    /\ FrameLive
    /\ fOp' = "handle"
    /\ fRet' = fHandle
    /\ fOut' = Out("ok", fHandle)
    /\ UNCHANGED <<fPhase, fHandle, fSize, fSize0, exceptFrameApi>>

\* frame.size()
FrameApiSize ==
    /\ FrameLive
    /\ fOp' = "size"
    /\ fRet' = fSize
    /\ fOut' = Out("ok", fSize)
    /\ UNCHANGED <<fPhase, fHandle, fSize, fSize0, exceptFrameApi>>

\* frame.mmap(): the pointer from vsl_frame_mmap, the size from self.size()
FrameApiMmap(mapOk) ==
    /\ FrameLive
    /\ fOp' = "mmap"
    /\ fRet' = IF NativeMmapNull(mapOk) THEN 0 ELSE 1
    /\ LET res == MmapResult(NativeMmapNull(mapOk), fSize)
       IN fOut' = Out(res, IF res = "slice" THEN fSize ELSE 0)
    /\ UNCHANGED <<fPhase, fHandle, fSize, fSize0, exceptFrameApi>>

\* frame.mmap_mut(): pointer and size both from vsl_frame_mmap, which writes
\* the size only when it returns a mapping
FrameApiMmapMut(mapOk) ==
    /\ FrameLive
    /\ fOp' = "mmap_mut"
    /\ fRet' = IF NativeMmapNull(mapOk) THEN 0 ELSE 1
    /\ LET size == IF NativeMmapNull(mapOk) THEN 0 ELSE fSize
           res == MmapResult(NativeMmapNull(mapOk), size)
       IN fOut' = Out(res, IF res = "slice" THEN size ELSE 0)
    /\ UNCHANGED <<fPhase, fHandle, fSize, fSize0, exceptFrameApi>>

\* frame.sync(enable, mode)
FrameApiSync(ok) ==
    /\ FrameLive
    /\ fOp' = "sync"
    /\ fRet' = NativeFrameRet(ok)
    /\ fOut' = Out(SyncResult(NativeFrameRet(ok)), 0)
    /\ UNCHANGED <<fPhase, fHandle, fSize, fSize0, exceptFrameApi>>

\* FourCC::from(&bytes[..]) with a slice of len bytes
FrameApiFourCC(len) ==
    /\ FrameLive
    /\ fOp' = "fourcc"
    /\ fRet' = len
    /\ fOut' = Out(FourCCFromSlice(len), 0)
    /\ fPhase' = IF FourCCFromSlice(len) = "panic" THEN "panicked" ELSE fPhase
    /\ UNCHANGED <<fHandle, fSize, fSize0, exceptFrameApi>>

NextFrameApi ==
    \/ \E len \in 0..MaxSlice, ok \in BOOLEAN : FrameApiNew(len, ok)
    \/ \E pathKind \in {"none", "utf8", "nonutf8", "nul"}, ok \in BOOLEAN, fd \in Fds :
          FrameApiAlloc(pathKind, ok, fd)
    \/ \E ok \in BOOLEAN, fd \in Fds : FrameApiAttach(ok, fd)
    \/ \E w \in {-1, 1}, ok \in BOOLEAN, fd \in Fds : FrameApiTryFrom(w, ok, fd)
    \/ FrameApiUnalloc
    \/ FrameApiHandle
    \/ FrameApiSize
    \/ \E mapOk \in BOOLEAN : FrameApiMmap(mapOk)
    \/ \E mapOk \in BOOLEAN : FrameApiMmapMut(mapOk)
    \/ \E ok \in BOOLEAN : FrameApiSync(ok)
    \/ \E len \in 0..MaxSlice : FrameApiFourCC(len)

SpecFrameApi == InitFrameApi /\ [][NextFrameApi]_vars

\* ------------------------------------------------------------------
\* videostream-cli: metrics collector, exit codes, fourcc conversions

MaxSerial == 4     \* frame serials fed to the collector: 0..MaxSerial
MaxCalls == 3      \* track_serial calls in one run

\* track_serial counting the distance to the previous serial itself
TrackSerialFromPrev(prev, s) ==
    IF prev.some THEN (IF s > prev.v THEN s - prev.v ELSE 0) ELSE 0

\* MetricsCollector::track_serial: the drops it computes
TrackSerial(prev, s) ==
    IF prev.some
    THEN LET expected == prev.v + 1
         IN IF s > expected THEN s - expected
            ELSE 0
    ELSE 0

\* collector.track_serial(s)
MetricsTrack(s) ==
    /\ mCalls < MaxCalls
    /\ mLast' = TrackSerial(mPrev, s)
    /\ mDropped' = mDropped + TrackSerial(mPrev, s)
    /\ mPrev' = [some |-> TRUE, v |-> s]
    /\ mCalls' = mCalls + 1
    /\ UNCHANGED <<xIn, xCode, qVia, qIn, qCode, qOut, exceptCli>>

\* CliError::exit_code
ExitCode(kind) ==
    CASE kind = "InvalidArgs" -> 2
      [] kind = "CameraNotFound" -> 3
      [] kind = "EncoderUnavailable" -> 4
      [] kind = "SocketError" -> 5
      [] kind = "Timeout" -> 6
      [] OTHER -> 1

\* result_to_exit_code on a command's result; a library error reaches
\* it through `?` and From<videostream::Error>
ResultToExitCode(res) ==
    IF res.variant = "Ok" THEN 0
    ELSE IF res.variant = "Cli" THEN ExitCode(res.kind)
    ELSE ExitCode(CliFrom(res))

\* the ways a command ends
CliEnds ==
    {[variant |-> "Ok", kind |-> "none"]}
    \cup {[variant |-> "Cli", kind |-> k] : k \in
            {"InvalidArgs", "CameraNotFound", "EncoderUnavailable", "SocketError", "Timeout", "General"}}
    \cup {[variant |-> "Io", kind |-> k] : k \in
            {"NotFound", "TimedOut", "ConnectionRefused", "ConnectionReset", "ConnectionAborted", "BrokenPipe", "PermissionDenied", "Other"}}
    \cup {[variant |-> v, kind |-> "none"] : v \in
            {"LibraryNotLoaded", "Utf8", "CString", "TryFromInt", "NullPointer", "SymbolNotFound", "HardwareNotAvailable"}}

\* the command returns res and the process exits
CliExit(res) ==
    /\ xCode = -1
    /\ xIn' = res
    /\ xCode' = ResultToExitCode(res)
    /\ UNCHANGED <<mPrev, mDropped, mLast, mCalls, qVia, qIn, qCode, qOut, exceptCli>>

FourccBytes == {49, 86}     \* '1', 'V'
FourccStrings == [1..4 -> FourccBytes] \cup [1..3 -> FourccBytes]

\* FourCC::to_u32 under cfg(target_endian); a u8 shifted left by 24 stays
\* within 32 bits, and ASCII bytes keep the code below 2^31
FourccToU32(b, endian) ==
    IF endian = "little"
    THEN b[4] * 16777216 + b[3] * 65536 + b[2] * 256 + b[1]
    ELSE b[1] * 16777216 + b[2] * 65536 + b[3] * 256 + b[4]

\* From<u32> for FourCC reading the bytes in the other order than to_u32
FourccFromU32Swapped(val, endian) ==
    IF endian = "big"
    THEN <<val % 256, (val \div 256) % 256, (val \div 65536) % 256,
           (val \div 16777216) % 256>>
    ELSE <<(val \div 16777216) % 256, (val \div 65536) % 256,
           (val \div 256) % 256, val % 256>>

\* From<u32> for FourCC under cfg(target_endian)
FourccFromU32(val, endian) ==
    IF endian = "little"
    THEN <<val % 256, (val \div 256) % 256, (val \div 65536) % 256,
           (val \div 16777216) % 256>>
    ELSE <<(val \div 16777216) % 256, (val \div 65536) % 256,
           (val \div 256) % 256, val % 256>>

\* String::from_utf8_lossy on four bytes: a byte that is not ASCII and
\* starts no valid sequence becomes U+FFFD
Utf8Lossy(b) == [i \in 1..Len(b) |-> IF b[i] < 128 THEN b[i] ELSE 65533]

\* utils::fourcc_from_str: -1 for Err(InvalidArgs)
FourccFromStr(s) ==
    IF Len(s) # 4 THEN -1
    ELSE s[1] + s[2] * 256 + s[3] * 65536 + s[4] * 16777216

\* utils::fourcc_to_str
FourccToStr(code) ==
    Utf8Lossy(<<code % 256, (code \div 256) % 256, (code \div 65536) % 256,
                (code \div 16777216) % 256>>)

\* u32::from(FourCC(b)) and FourCC::from of the result
FourccRoundTrip(b, endian) ==
    /\ Len(b) = 4
    /\ qVia' = "FourCC"
    /\ qIn' = b
    /\ qCode' = FourccToU32(b, endian)
    /\ qOut' = FourccFromU32(FourccToU32(b, endian), endian)
    /\ UNCHANGED <<mPrev, mDropped, mLast, mCalls, xIn, xCode, exceptCli>>

\* fourcc_from_str(s) and, when it is Ok, fourcc_to_str of the result
CliFourccRoundTrip(s) ==
    /\ qVia' = "cli"
    /\ qIn' = s
    /\ qCode' = FourccFromStr(s)
    /\ qOut' = IF FourccFromStr(s) = -1 THEN << >> ELSE FourccToStr(FourccFromStr(s))
    /\ UNCHANGED <<mPrev, mDropped, mLast, mCalls, xIn, xCode, exceptCli>>

InitCli ==
    /\ ProtoInit /\ ConsIdle /\ LoopIdle /\ HostsIdle /\ ServeIdle /\ CaptureIdle
    /\ FrameApiIdle /\ CliIdle /\ SysIdle /\ SigIdle

NextCli ==
    \/ \E s \in 0..MaxSerial : MetricsTrack(s)
    \/ \E res \in CliEnds : CliExit(res)
    \/ \E b \in FourccStrings, e \in {"little", "big"} : FourccRoundTrip(b, e)
    \/ \E s \in FourccStrings : CliFourccRoundTrip(s)

SpecCli == InitCli /\ [][NextCli]_vars

\* ------------------------------------------------------------------
\* videostream-sys: init() called from several threads

\* the double check skipped: LIBRARY is taken to be unset once the lock is held
LibraryGetLockedSkipped(lib) == 0

\* LIBRARY.get() after INIT_LOCK was acquired
LibraryGetLocked(lib) == lib

\* OnceLock::set: stores only into an unset cell
OnceLockSet(cell, h) == IF cell = 0 THEN h ELSE cell

InitSys ==
    /\ ProtoInit /\ ConsIdle /\ LoopIdle /\ HostsIdle /\ ServeIdle /\ CaptureIdle
    /\ FrameApiIdle /\ CliIdle /\ SysIdle /\ SigIdle

\* a thread calls init()
InitCall(t) ==
    /\ iPc[t] = "idle" /\ iCalls[t] < MaxInitCalls
    /\ iCalls' = [iCalls EXCEPT ![t] = @ + 1]
    /\ iPc' = [iPc EXCEPT ![t] = "fast"]
    /\ iRet' = [iRet EXCEPT ![t] = 0]
    /\ UNCHANGED <<iLock, iLibrary, iLoads, iLocal, exceptInit>>

\* if let Some(lib) = LIBRARY.get() { return Ok(lib); }
InitFast(t) ==
    /\ iPc[t] = "fast"
    /\ IF iLibrary # 0
       THEN /\ iRet' = [iRet EXCEPT ![t] = iLibrary]
            /\ iPc' = [iPc EXCEPT ![t] = "idle"]
       ELSE /\ iRet' = iRet
            /\ iPc' = [iPc EXCEPT ![t] = "lock"]
    /\ UNCHANGED <<iCalls, iLock, iLibrary, iLoads, iLocal, exceptInit>>

\* let _guard = INIT_LOCK.lock().unwrap();
InitLock(t) ==
    /\ iPc[t] = "lock" /\ iLock = 0
    /\ iLock' = t
    /\ iPc' = [iPc EXCEPT ![t] = "check"]
    /\ UNCHANGED <<iCalls, iLibrary, iLoads, iLocal, iRet, exceptInit>>

\* the double check after acquiring the lock; the guard is dropped on return
InitCheck(t) ==
    /\ iPc[t] = "check"
    /\ IF LibraryGetLocked(iLibrary) # 0
       THEN /\ iRet' = [iRet EXCEPT ![t] = LibraryGetLocked(iLibrary)]
            /\ iPc' = [iPc EXCEPT ![t] = "idle"]
            /\ iLock' = 0
       ELSE /\ iRet' = iRet
            /\ iPc' = [iPc EXCEPT ![t] = "load"]
            /\ iLock' = iLock
    /\ UNCHANGED <<iCalls, iLibrary, iLoads, iLocal, exceptInit>>

\* VideoStreamLibrary::new(lib_path)?  and Box::leak of the result
InitLoad(t, ok) ==
    /\ iPc[t] = "load"
    /\ IF ok
       THEN /\ iLoads' = iLoads + 1
            /\ iLocal' = [iLocal EXCEPT ![t] = iLoads + 1]
            /\ iPc' = [iPc EXCEPT ![t] = "set"]
            /\ UNCHANGED <<iRet, iLock>>
       ELSE /\ iRet' = [iRet EXCEPT ![t] = -1]
            /\ iPc' = [iPc EXCEPT ![t] = "idle"]
            /\ iLock' = 0
            /\ UNCHANGED <<iLoads, iLocal>>
    /\ UNCHANGED <<iCalls, iLibrary, exceptInit>>

\* LIBRARY.set(leaked_lib).ok().expect(..); Ok(*LIBRARY.get().unwrap())
InitSet(t) ==
    /\ iPc[t] = "set"
    /\ iLibrary' = OnceLockSet(iLibrary, iLocal[t])
    /\ iLocal' = [iLocal EXCEPT ![t] = 0]
    /\ IF iLibrary = 0
       THEN /\ iRet' = [iRet EXCEPT ![t] = iLocal[t]]
            /\ iPc' = [iPc EXCEPT ![t] = "idle"]
       ELSE /\ iRet' = iRet
            /\ iPc' = [iPc EXCEPT ![t] = "panic"]
    /\ iLock' = 0
    /\ UNCHANGED <<iCalls, iLoads, exceptInit>>

NextSys ==
    \E t \in Threads :
        \/ InitCall(t)
        \/ InitFast(t)
        \/ InitLock(t)
        \/ InitCheck(t)
        \/ \E ok \in BOOLEAN : InitLoad(t, ok)
        \/ InitSet(t)

SpecSys == InitSys /\ [][NextSys]_vars

\* ------------------------------------------------------------------
\* videostream-cli: the commands' loops and the SIGINT flag

MaxSigFrames == 2   \* max_frames of the command

IpcCommands == {"receive", "record_ipc"}

\* vsl_client_init reached through Client::new(path, Reconnect::Yes): it
\* returns once a Host listens and retries until then
NativeClientInitReturns(hostUp, reconnect) == hostUp \/ ~reconnect

InitSignal ==
    /\ ProtoInit /\ ConsIdle /\ LoopIdle /\ HostsIdle /\ ServeIdle /\ CaptureIdle
    /\ FrameApiIdle /\ CliIdle /\ SysIdle
    /\ gCmd \in {"stream", "receive", "record_ipc", "record_camera"} /\ gPc = "start" /\ gTerm = FALSE
    /\ gHost = FALSE /\ gCount = 0 /\ gRes = "run"

\* SIGINT is delivered after the handler was registered: the flag is set
SigInt ==
    /\ gPc \notin {"start", "end"} /\ ~gTerm
    /\ gTerm' = TRUE
    /\ UNCHANGED <<gCmd, gPc, gHost, gCount, gRes, exceptSig>>

\* a Host starts listening on the socket
SigHostStart ==
    /\ ~gHost /\ gPc # "end"
    /\ gHost' = TRUE
    /\ UNCHANGED <<gCmd, gPc, gTerm, gCount, gRes, exceptSig>>

\* install_signal_handler()?, then the command's resources: the camera
\* and Host for the camera commands, nothing yet for the IPC ones
SigSetup(ok) ==
    /\ gPc = "start"
    /\ IF ~ok THEN gPc' = "end" /\ gRes' = "err"
       ELSE /\ gPc' = IF gCmd \in IpcCommands THEN "connect" ELSE "loop"
            /\ gRes' = gRes
    /\ UNCHANGED <<gCmd, gTerm, gHost, gCount, exceptSig>>

\* Client::new(socket, Reconnect::Yes)? returns
SigConnect ==
    /\ gPc = "connect"
    /\ NativeClientInitReturns(gHost, TRUE)
    /\ gPc' = "loop"
    /\ UNCHANGED <<gCmd, gTerm, gHost, gCount, gRes, exceptSig>>

\* while frame_count < max_frames && !term.load(Ordering::Relaxed)
SigLoop ==
    /\ gPc = "loop"
    /\ IF gCount < MaxSigFrames /\ ~gTerm
       THEN /\ gPc' = IF gCmd \in IpcCommands THEN "wait" ELSE "read"
            /\ gRes' = gRes
       ELSE /\ gPc' = "end"
            /\ gRes' = "ok"
    /\ UNCHANGED <<gCmd, gTerm, gHost, gCount, exceptSig>>

\* cam.read()? returns a buffer or an error
SigRead(ok) ==
    /\ gPc = "read"
    /\ IF ok THEN gPc' = "body" /\ gRes' = gRes
       ELSE gPc' = "end" /\ gRes' = "err"
    /\ UNCHANGED <<gCmd, gTerm, gHost, gCount, exceptSig>>

\* client.get_frame(0) returns within the timeout set with set_timeout:
\* a frame, the timed-out error or another error
SigGetFrame(out) ==
    /\ gPc = "wait"
    /\ out = "frame" => gHost
    /\ IF out = "frame" THEN gPc' = "body" /\ gRes' = gRes
       ELSE /\ gPc' = "end"
            /\ gRes' = IF out = "timeout"
                       THEN (IF gCmd = "receive"
                             THEN ReceiveGetFrameErr([variant |-> "Io", kind |-> "TimedOut"])
                             ELSE RecordGetFrameErr([variant |-> "Io", kind |-> "TimedOut"]))
                       ELSE "err"
    /\ UNCHANGED <<gCmd, gTerm, gHost, gCount, exceptSig>>

\* the rest of the loop body: frame_count += 1, or an error returned with ?
SigBody(ok) ==
    /\ gPc = "body"
    /\ IF ok THEN gPc' = "loop" /\ gCount' = gCount + 1 /\ gRes' = gRes
       ELSE gPc' = "end" /\ gCount' = gCount /\ gRes' = "err"
    /\ UNCHANGED <<gCmd, gTerm, gHost, exceptSig>>

\* the steps the command's thread takes on its own
SigStep ==
    \/ \E ok \in BOOLEAN : SigSetup(ok)
    \/ SigConnect
    \/ SigLoop
    \/ \E ok \in BOOLEAN : SigRead(ok)
    \/ \E out \in {"frame", "timeout", "error"} : SigGetFrame(out)
    \/ \E ok \in BOOLEAN : SigBody(ok)

NextSignal ==
    \/ SigInt
    \/ SigHostStart
    \/ SigStep

\* the command's thread keeps running; neither the signal nor a Host is
\* bound to come
SpecSignal == InitSignal /\ [][NextSignal]_vars /\ WF_vars(SigStep)

\* =================================================================== claims
\* C1: over any sequence of frame operations, every frame whose backing
\* memory was allocated has that memory released exactly once: no frame is
\* released twice, and once every Frame value is gone and the Host is
\* destroyed no frame with memory is left unreleased.
C1_ReleasedExactlyOnce ==
    /\ \A f \in AllFrames : Len(rel[f]) <= 1
    /\ (held = {} /\ hostState = "closed")
          => \A f \in created \cap mem : Len(rel[f]) = 1

\* C2: once a frame has been handed to Host::post and not taken back through
\* drop_frame, no Rust Frame value holds it and every release of it was
\* made by the Host.
C2_PostedReleasedOnlyByHost ==
    \A f \in posted :
        /\ f \notin held
        /\ \A i \in 1..Len(rel[f]) : rel[f][i] = "host"

C2_Witness ==
    \E f \in posted : f \notin leaked /\ rel[f] = <<"host">>

\* C3 as stated: the Host never releases a posted frame before its deadline,
\* whatever the Host does, and after a process() call no frame whose
\* deadline has passed is still tracked.
C3_HostNeverReleasesEarly ==
    [][/\ \A f \in Frames :
             (f \in tracked /\ Len(rel'[f]) > Len(rel[f])) => expires[f] <= now
       /\ lastProcess' => \A f \in tracked' : expires'[f] > now']_vars

\* C3 amended: while the Host stays alive, a frame it tracks is released only
\* once its deadline has been reached, and when a process() call returns
\* every frame still tracked has its deadline in the future.
C3_ProcessHonoursDeadline ==
    [][/\ \A f \in Frames :
             (f \in tracked /\ hostState' = "up" /\ Len(rel'[f]) > Len(rel[f]))
                => expires[f] <= now
       /\ lastProcess' => \A f \in tracked' : expires'[f] > now']_vars

C3_Witness ==
    /\ lastProcess /\ now > 0
    /\ \E f \in tracked : expires[f] > now
    /\ \E g \in posted \ leaked : rel[g] = <<"host">>

\* C4: in every loop that drives a Host, each iteration has called process()
\* exactly once by the time the loop body ends, whatever poll returned.
C4_ProcessEveryIteration ==
    lpc = "end" => lprocessed = 1

\* C5: with no client connected, when a process() call has returned and
\* every deadline has passed, the Host tracks nothing and every frame it
\* published has been released.
C5_NoAccumulation ==
    (/\ lastProcess
     /\ \A c \in Clients : cstate[c] # "connected"
     /\ \A f \in Frames : expires[f] <= now)
        => /\ tracked = {}
           /\ \A f \in posted \ leaked : Released(f)

C5_Witness ==
    /\ lastProcess /\ hostState = "up" /\ tracked = {}
    /\ \A c \in Clients : cstate[c] # "connected"
    /\ Cardinality({f \in posted \ leaked : Released(f)}) >= 2

\* C6: on one connection every frame received carries a serial greater than
\* that of every frame received before it.
C6_SerialsIncrease ==
    \A c \in Clients : \A i, j \in 1..Len(recv[c]) :
        i < j => recv[c][i] < recv[c][j]

C6_Witness ==
    \E c \in Clients : Len(recv[c]) >= 2

\* C7: a trylock issued while the frame was locked returned an error and
\* left the lock with its holder.
C7_TrylockWhileLockedFails ==
    lastLock.was # "none" => (lastLock.res = "err" /\ lastLock.after = lastLock.was)

C7_Witness ==
    lastLock.was = "self" /\ lastLock.res = "err" /\ lockBy = "self"

\* C8: when the consumer loop drops a frame, it has unlocked it as many
\* times as it locked it, and it never unlocks more often than it locked.
C8_LockUnlockPaired ==
    /\ unlocks <= locks
    /\ cpc = "dropped" => locks = unlocks

C10_TimeoutExact ==
    /\ gfCause = "timeout" => (gfErr = "TimedOut" /\ cres = "Timeout")
    /\ gfCause \in {"disconnect", "refused", "null"}
          => (gfErr # "TimedOut" /\ cres # "Timeout")

C10_Witness ==
    gfCause = "timeout" /\ cres = "Timeout" /\ cframes > 0

\* C11: a client created with reconnect enabled never has get_frame fail for
\* being disconnected: the call re-establishes the connection when a Host is
\* listening; a client created with reconnect disabled stays closed once
\* its connection is closed, and its get_frame fails.
C11_ReconnectAfterDisconnect ==
    [][\A c \in Clients :
          /\ getRes'[c] = "disconnected" => creconn'[c] = "No"
          /\ getRes'[c] \in {"reconnected", "refused"} => creconn'[c] = "Yes"
          /\ (cstate[c] = "closed" /\ creconn[c] = "No") => cstate'[c] = "closed"
          /\ (cstate[c] = "closed" /\ cstate'[c] = "connected")
                => (getRes'[c] = "reconnected" /\ hostState = "up")]_vars

C11_Witness ==
    \E c \in Clients :
        creconn[c] = "Yes" /\ conn[c] >= 2 /\ Len(recv[c]) >= 1

\* C12: once the Host is destroyed its listening socket is closed, its
\* socket path is gone, it tracks nothing, no connection is left pending or
\* accepted, and every frame it had published has been released.
C12_DestroyedHostReleasesAll ==
    hostState = "closed" =>
        /\ listenFd = "closed" /\ sockPath = "absent"
        /\ tracked = {} /\ pending = {} /\ accepted = {}
        /\ \A f \in posted \ leaked : Released(f)

C12_Witness ==
    /\ hostState = "closed" /\ now = 0
    /\ \E f \in posted \ leaked : rel[f] = <<"host">>
    /\ \E c \in Clients : cstate[c] = "closed" /\ newRes[c].res = "ok"

\* C13: at every moment at most one live Host is bound to and listening at
\* the socket path, for any order of creating and destroying Hosts there
C13_OneHostPerPath ==
    Cardinality({h \in Hosts : hsState[h] = "live" /\ hsListen[h]}) <= 1

C15_DroppedFrameBackWithCaller ==
    [][\A f \in Frames :
          /\ (f \in held' /\ serial'[f] > 0) => f \notin tracked'
          /\ (f \in held /\ serial[f] > 0) =>
                /\ rel'[f] # rel[f] => rel'[f] = <<"rust">>
                /\ \A c \in Clients :
                      ClientFrame(c, f) \in created' => ClientFrame(c, f) \in created]_vars

C15_Witness ==
    \E f \in Frames :
        /\ f \in held /\ serial[f] > 0 /\ ~Released(f)
        /\ hostState = "closed"
        /\ \E c \in Clients : conn[c] >= 1 /\ ClientFrame(c, f) \notin created

\* C16: whenever a Frame attached to an external descriptor is still in use,
\* posted frames included, the source of the descriptor is alive: no camera
\* buffer is back with the camera while a Frame attached to it is alive
C16_AttachedSourceAlive ==
    /\ cpLocal > 0 => cpBuf[cpLocal] = "app"
    /\ \A i \in 1..Len(cpHost) : cpHost[i].buf > 0 => cpBuf[cpHost[i].buf] = "app"

\* C17: Frame::sync returns Ok(()) exactly when the native cache
\* synchronisation call succeeded and an Io error exactly when it failed
C17_SyncReportsOutcome ==
    fOp = "sync" =>
        /\ fOut.kind = "ok" <=> fRet = 0
        /\ fOut.kind = "io" <=> fRet < 0

\* C18: no public operation of Frame or FourCC conversion panics, whatever
\* the input: every failure reaches the caller as an Err value
C18_NoPanic == fOut.kind # "panic"

\* C19: handle() is -1 before the frame is allocated; from a successful alloc
\* until the memory is released size() > 0 and handle() >= 0; after unalloc
\* handle() is -1 again, and the accessors return without panicking
C19_HandleAndSizeFollowMemory ==
    /\ (fOp = "handle" /\ fPhase \in {"new", "released"}) => fOut = Out("ok", -1)
    /\ (fOp = "handle" /\ fPhase = "allocated") => (fOut.kind = "ok" /\ fOut.val >= 0)
    /\ (fOp = "size" /\ fPhase = "allocated") => (fOut.kind = "ok" /\ fOut.val > 0)
    /\ fOp \in {"handle", "size", "mmap", "mmap_mut"} => fOut.kind # "panic"

\* handle() called after alloc and unalloc
C19_Witness == fOp = "handle" /\ fPhase = "released" /\ fOut = Out("ok", -1)

\* C20: while the frame has no backing memory (never allocated or attached,
\* or after unalloc) mmap and mmap_mut return the null-reference error,
\* never a slice
C20_MmapNeedsMemory ==
    (fOp \in {"mmap", "mmap_mut"} /\ ~HasMemory /\ FrameLive) => fOut.kind = "null"

\* mmap after unalloc on a frame that still reports a size
C20_Witness ==
    /\ fOp = "mmap" /\ fPhase = "released" /\ fSize > 0 /\ fOut.kind = "null"

\* C21: Frame::new with a fourcc string whose length is not exactly 4
\* creates no frame and fails with the InvalidFormat error kind
C21_BadFourccInvalidFormat ==
    (fOp = "new" /\ fRet # 4) => (fOut.kind = "InvalidFormat" /\ fPhase = "none")

\* C22: after any sequence of connects and disconnects Host::sockets returns
\* the listening socket first, followed by exactly the sockets of the clients
\* the Host holds at that moment; without clients the list is the listening
\* socket alone, never empty
C22_SocketsListsListenerAndClients ==
    [][(svList = <<-1>> /\ svList' # <<-1>>) =>
          /\ Len(svList') = 1 + Cardinality({c \in ServeClients :
                                                svSock'[c] \in {"connected", "broken"}})
          /\ svList'[1] = 0
          /\ {svList'[i] : i \in 2..Len(svList')}
                = {c \in ServeClients : svSock'[c] \in {"connected", "broken"}}]_vars

\* a snapshot taken with one client connected after another was dropped
C22_Witness ==
    /\ Len(svList) = 2 /\ svList[1] = 0
    /\ \E c, d \in ServeClients : svSock[c] = "closed" /\ svList[2] = d /\ svGot[d] = 0

\* C23: a track_serial call adds exactly (serial - previous - 1) to
\* dropped_frames when serial is greater than previous + 1 and adds 0
\* otherwise, the first call adds 0, it returns what it added, and the
\* cumulative dropped_frames never decreases
C23_GapIsMissingSerials ==
    [][(mCalls' = mCalls + 1) =>
          /\ mDropped' >= mDropped
          /\ mLast' = mDropped' - mDropped
          /\ (~mPrev.some => mDropped' = mDropped)
          /\ (mPrev.some /\ mPrev'.v > mPrev.v + 1
                => mDropped' - mDropped = mPrev'.v - mPrev.v - 1)
          /\ (mPrev.some /\ mPrev'.v <= mPrev.v + 1 => mDropped' = mDropped)]_vars

\* serials 0, 3, 1, 4 (or the like): two gaps counted, with a step back
\* between them that added nothing
C23_Witness ==
    /\ mCalls = 3 /\ mPrev.some /\ mPrev.v = 4 /\ mLast = 3 /\ mDropped = 3

\* C25: a command that ends yields the exit code of its error's kind:
\* success 0, invalid arguments 2, device not found 3, hardware
\* unavailable 4, socket error 5, timeout 6, anything else 1; an I/O
\* error of the library yields the code of its own kind: not-found 3,
\* timed-out 6, connection refused/reset/aborted 5, other 1, and
\* permission-denied a code that is not the one of another of these kinds
C25_ExitCodeOfOwnKind ==
    xCode # -1 =>
        /\ (xIn.variant = "Ok" => xCode = 0)
        /\ (xIn.variant = "Cli" =>
              xCode = CASE xIn.kind = "InvalidArgs" -> 2
                        [] xIn.kind = "CameraNotFound" -> 3
                        [] xIn.kind = "EncoderUnavailable" -> 4
                        [] xIn.kind = "SocketError" -> 5
                        [] xIn.kind = "Timeout" -> 6
                        [] OTHER -> 1)
        /\ (xIn.variant = "Io" /\ xIn.kind = "NotFound" => xCode = 3)
        /\ (xIn.variant = "Io" /\ xIn.kind = "TimedOut" => xCode = 6)
        /\ (xIn.variant = "Io" /\ xIn.kind \in {"ConnectionRefused", "ConnectionReset",
                                               "ConnectionAborted"} => xCode = 5)
        /\ (xIn.variant = "Io" /\ xIn.kind = "Other" => xCode = 1)
        /\ (xIn.variant = "Io" /\ xIn.kind = "PermissionDenied" => xCode \notin {3, 5, 6})

\* C26: for every 4-byte ASCII fourcc string F, converting F to its
\* 32-bit code and converting that code back yields F unchanged, through
\* FourCC (From<FourCC> for u32, then From<u32>) on either byte order and
\* through fourcc_from_str and fourcc_to_str
C26_FourccRoundTrip ==
    (qVia \in {"FourCC", "cli"} /\ Len(qIn) = 4) => (qCode # -1 /\ qOut = qIn)

\* "1VV1" and the like went through the CLI helpers: the packed code is
\* the little-endian one and the bytes are not a palindrome
C26_Witness ==
    /\ qVia = "cli" /\ Len(qIn) = 4 /\ qIn[1] # qIn[4]
    /\ qCode = qIn[1] + 256 * qIn[2] + 65536 * qIn[3] + 16777216 * qIn[4]
    /\ qOut = qIn

\* C27: a Frame a client obtained, through Frame::wait as well as through
\* Client::get_frame, refers to a native frame that has not been released
\* for as long as the Frame value exists
C27_WaitFrameUnreleased ==
    \A c \in Clients : \A h \in Frames :
        ClientFrame(c, h) \in held => ~Released(ClientFrame(c, h))

\* C28: a frame whose Host::post returned an error is not leaked: the
\* Host does not track it, and once every Frame value is gone and the
\* Host is destroyed its backing memory has been released exactly once
C28_FailedPostNotLeaked ==
    \A f \in leaked :
        /\ f \notin tracked
        /\ (held = {} /\ hostState = "closed" /\ f \in mem) => Len(rel[f]) = 1

\* C29: when the consumer's trylock fails because another holder has the
\* frame locked, the command gives the frame up and keeps running: it has
\* not ended with an error
C29_TrylockContentionRetries ==
    (cpc = "dropped" /\ locks = 0 /\ lastLock.was = "other" /\ lastLock.res = "err")
        => cres = "run"

\* C24: for any interleaving of init() calls from several threads the
\* library is loaded at most once, every successful call returns the
\* handle stored in LIBRARY (so all return the same one), and a stored
\* handle is never replaced or removed
C24_LoadedOnceNeverReplaced ==
    [][/\ iLoads' <= 1
       /\ \A t \in Threads : iRet'[t] > 0 => iRet'[t] = iLibrary'
       /\ (iLibrary # 0 => iLibrary' = iLibrary)]_vars

\* one thread loaded and stored the library while the other was already
\* past the fast path; the other one, now holding the lock, is at the
\* double check and will return the stored handle
C24_Witness ==
    \E t, u \in Threads :
        /\ t # u /\ iLoads = 1 /\ iLibrary = 1 /\ iRet[t] = 1
        /\ iPc[u] = "check" /\ iLock = u /\ iCalls[u] = 1

\* C30: once the SIGINT flag has been set, the command leaves its loop
\* and ends: it does not stay blocked in a connection attempt, a camera
\* read or a frame wait
C30_SigintEndsCommand ==
    gTerm ~> (gPc = "end")

====
